---- MODULE Spec2Model ----
(***************************************************************************)
(* The transmission decoder of src/day/sixteen.rs.                         *)
(*                                                                         *)
(* A text is a sequence of Unicode code points, a bit slice (&Bits, the    *)
(* cursor) is a sequence of 0/1 with the first element the next bit to be  *)
(* read, and a u64 is a sequence of U64_NIBBLES base-16 digits, most       *)
(* significant first, so that its 64-bit width is kept.  A function that   *)
(* takes the cursor by `&mut` returns a record holding the outcome (ok,    *)
(* val or err) and the cursor as the call left it (bits).                  *)
(***************************************************************************)
EXTENDS Integers, Sequences, FiniteSets, TLC

VARIABLES input, bits, call, result, pc,
          overflow_checks, transmission, version_sum, pending_packages, popped,
          argv, file, stdout, history, frame

vars == <<input, bits, call, result, pc,
          overflow_checks, transmission, version_sum, pending_packages, popped,
          argv, file, stdout, history, frame>>

----------------------------------------------------------------------------
(* Program constants, sixteen.rs:35-39 *)
VERSION_BIT_COUNT == 3
TYPE_ID_BIT_COUNT == 3
LITERAL_PACKET_DATA_BIT_COUNT == 4
OPERATION_PACKET_DATA_BIT_COUNT == 15
OPERATION_PACKET_DATA_COUNT == 11

(* A u64 holds 64 bits: 16 base-16 digits. *)
U64_NIBBLES == 16

----------------------------------------------------------------------------
(* ParseTransmissionError::new(text): the error wraps the text it is given. *)
(* A formatted text is modelled by its parts.                               *)
ParseTransmissionError(text) == text

Ok(v, rest) == [ok |-> TRUE, val |-> v, bits |-> rest]
Err(e, rest) == [ok |-> FALSE, err |-> e, bits |-> rest]

(* split_first: the next bit as a bool; the error is the caller's message alone. *)
split_first(b, error_message) ==
    IF b = <<>>
    THEN Err(ParseTransmissionError([message |-> error_message]), b)
    ELSE Ok(Head(b) = 1, Tail(b))

(* split_at whose error swaps the two numbers it formats. *)
split_at_swapped(b, mid, error_message) ==
    IF Len(b) >= mid
    THEN Ok(SubSeq(b, 1, mid), SubSeq(b, mid + 1, Len(b)))
    ELSE Err(ParseTransmissionError(
                 [message |-> error_message, len |-> mid, mid |-> Len(b)]), b)

(* split_at that hands out whatever is left when the cursor is too short. *)
split_at_clamped(b, mid, error_message) ==
    IF Len(b) < mid
    THEN Ok(b, <<>>)
    ELSE Ok(SubSeq(b, 1, mid), SubSeq(b, mid + 1, Len(b)))

(* split_at that takes what is left of the cursor before it fails. *)
split_at_draining(b, mid, error_message) ==
    IF Len(b) >= mid
    THEN Ok(SubSeq(b, 1, mid), SubSeq(b, mid + 1, Len(b)))
    ELSE Err(ParseTransmissionError(
                 [message |-> error_message, len |-> Len(b), mid |-> mid]), <<>>)

(* split_at: carve off the next mid bits; the error formats              *)
(* "{error_message}: len: {len}, mid: {mid}".                             *)
split_at(b, mid, error_message) ==
    IF Len(b) >= mid
    THEN Ok(SubSeq(b, 1, mid), SubSeq(b, mid + 1, Len(b)))
    ELSE LET len == Len(b)
         IN  Err(ParseTransmissionError(
                   [message |-> error_message, len |-> len, mid |-> mid]), b)

(* load_le: the first bit taken as the least significant. *)
RECURSIVE load_le(_)
load_le(b) ==
    IF b = <<>> THEN 0 ELSE b[1] + 2 * load_le(Tail(b))

(* load_be of a Msb0 bit slice: the first bit is the most significant. *)
RECURSIVE load_be(_)
load_be(b) ==
    IF b = <<>> THEN 0
    ELSE 2 * load_be(SubSeq(b, 1, Len(b) - 1)) + b[Len(b)]

(* split_at_as::<I>: split_at, then load_be of the bits carved off. *)
split_at_as(b, mid, error_message) ==
    LET r == split_at(b, mid, error_message)
    IN  IF r.ok THEN Ok(load_be(r.val), r.bits) ELSE r

----------------------------------------------------------------------------
(* u64 arithmetic of parse_value *)
U64Zero == [i \in 1..U64_NIBBLES |-> 0]

(* value <<= 4: the digits move up one place, the top digit is shifted out. *)
U64Shl4(v) == SubSeq(v, 2, U64_NIBBLES) \o <<0>>

(* value += n for n < 16, carrying upwards, modulo 2^64. *)
RECURSIVE U64AddAt(_, _, _)
U64AddAt(v, i, n) ==
    IF i = 0 \/ n = 0 THEN v
    ELSE LET s == v[i] + n
         IN  U64AddAt([v EXCEPT ![i] = s % 16], i - 1, s \div 16)

U64Add(v, n) == U64AddAt(v, U64_NIBBLES, n)

----------------------------------------------------------------------------
(* try_from with the arms of 5 and 6 exchanged. *)
OperationTryFrom_swapped(value) ==
    CASE value = 0 -> [ok |-> TRUE, val |-> "Sum"]
      [] value = 1 -> [ok |-> TRUE, val |-> "Product"]
      [] value = 2 -> [ok |-> TRUE, val |-> "Minimum"]
      [] value = 3 -> [ok |-> TRUE, val |-> "Maximum"]
      [] value = 5 -> [ok |-> TRUE, val |-> "LessThan"]
      [] value = 6 -> [ok |-> TRUE, val |-> "GreaterThan"]
      [] value = 7 -> [ok |-> TRUE, val |-> "EqualTo"]
      [] OTHER -> [ok |-> FALSE,
                   err |-> ParseTransmissionError(
                       [message |-> "invalid operation value", value |-> value])]

(* Operation::try_from(u8) *)
OperationTryFrom(value) ==
    CASE value = 0 -> [ok |-> TRUE, val |-> "Sum"]
      [] value = 1 -> [ok |-> TRUE, val |-> "Product"]
      [] value = 2 -> [ok |-> TRUE, val |-> "Minimum"]
      [] value = 3 -> [ok |-> TRUE, val |-> "Maximum"]
      [] value = 5 -> [ok |-> TRUE, val |-> "GreaterThan"]
      [] value = 6 -> [ok |-> TRUE, val |-> "LessThan"]
      [] value = 7 -> [ok |-> TRUE, val |-> "EqualTo"]
      [] OTHER -> [ok |-> FALSE,
                   err |-> ParseTransmissionError(
                       [message |-> "invalid operation value", value |-> value])]

Literal(version, value) ==
    [kind |-> "Literal", version |-> version, value |-> value]

Operator(version, operation, packages) ==
    [kind |-> "Operator", version |-> version, operation |-> operation,
     packages |-> packages]

(* parse_value whose loop ends at the continuation bit 0, before the data *)
(* bits of that group are read.                                           *)
RECURSIVE parse_value_loop_short(_, _)
parse_value_loop_short(b, value) ==
    LET more_packets ==
            split_first(b, "insufficient bits for literal packet identifier")
    IN  IF ~more_packets.ok THEN more_packets
        ELSE IF ~more_packets.val THEN Ok(value, more_packets.bits)
        ELSE LET packet_value ==
                     split_at_as(more_packets.bits, LITERAL_PACKET_DATA_BIT_COUNT,
                                 "insufficient bits for literal packet content")
             IN  IF ~packet_value.ok THEN packet_value
                 ELSE LET v == U64Add(U64Shl4(value), packet_value.val)
                      IN  IF v = v
                          THEN parse_value_loop_short(packet_value.bits, v)
                          ELSE Ok(v, packet_value.bits)

(* Package::parse_value: the loop body runs while more_packets, which starts *)
(* true; each `?` returns the error with the cursor where the read left it.  *)
(* (TLC hands arguments on unevaluated: the conjunct v = v, which is TRUE,   *)
(* has the accumulator computed at every turn of a loop, not behind the      *)
(* last one.)                                                                *)
RECURSIVE parse_value_loop(_, _)
parse_value_loop(b, value) ==
    LET more_packets ==
            split_first(b, "insufficient bits for literal packet identifier")
    IN  IF ~more_packets.ok THEN more_packets
        ELSE LET packet_value ==
                     split_at_as(more_packets.bits, LITERAL_PACKET_DATA_BIT_COUNT,
                                 "insufficient bits for literal packet content")
             IN  IF ~packet_value.ok THEN packet_value
                 ELSE LET v == U64Add(U64Shl4(value), packet_value.val)
                      IN  IF v = v /\ more_packets.val
                          THEN parse_value_loop(packet_value.bits, v)
                          ELSE Ok(v, packet_value.bits)

parse_value(b) == parse_value_loop(b, U64Zero)

RECURSIVE parse(_)
RECURSIVE parse_wide_version(_)
RECURSIVE parse_count_loop(_, _, _)
RECURSIVE parse_bits_loop(_, _)
RECURSIVE parse_count_loop_one_less(_, _, _)
RECURSIVE parse_bits_loop_lenient(_, _)
RECURSIVE parse_count_loop_lenient(_, _, _)

(* The count loop with `while packet_count > 1`. *)
parse_count_loop_one_less(b, packet_count, packages) ==
    IF packet_count > 1
    THEN LET p == parse(b)
         IN  IF ~p.ok THEN p
             ELSE parse_count_loop_one_less(p.bits, packet_count - 1,
                                            Append(packages, p.val))
    ELSE Ok(packages, b)

(* The bounded loop that stops, keeping its packages, when a parse fails. *)
parse_bits_loop_lenient(packet_bits, packages) ==
    IF packet_bits # <<>>
    THEN LET p == parse(packet_bits)
         IN  IF ~p.ok THEN Ok(packages, packet_bits)
             ELSE parse_bits_loop_lenient(p.bits, Append(packages, p.val))
    ELSE Ok(packages, packet_bits)

(* The count loop that leaves out a package whose parse fails and goes on. *)
parse_count_loop_lenient(b, packet_count, packages) ==
    IF packet_count > 0
    THEN LET p == parse(b)
         IN  IF ~p.ok
             THEN parse_count_loop_lenient(p.bits, packet_count - 1, packages)
             ELSE parse_count_loop_lenient(p.bits, packet_count - 1,
                                           Append(packages, p.val))
    ELSE Ok(packages, b)

(* while packet_count > 0 { packages.push(Package::parse(bits)?); packet_count -= 1 } *)
parse_count_loop(b, packet_count, packages) ==
    IF packet_count > 0
    THEN LET p == parse(b)
         IN  IF ~p.ok THEN p
             ELSE parse_count_loop(p.bits, packet_count - 1, Append(packages, p.val))
    ELSE Ok(packages, b)

(* while !packet_bits.is_empty() { packages.push(Package::parse(&mut packet_bits)?) } *)
parse_bits_loop(packet_bits, packages) ==
    IF packet_bits # <<>>
    THEN LET p == parse(packet_bits)
         IN  IF ~p.ok THEN p
             ELSE parse_bits_loop(p.bits, Append(packages, p.val))
    ELSE Ok(packages, packet_bits)

(* parse_sub_packages that leaves the cursor in front of the bounded range. *)
parse_sub_packages_unadvanced(b) ==
    LET length_type_id ==
            split_first(b, "insufficient bits for packet length identifier")
    IN  IF ~length_type_id.ok THEN length_type_id
        ELSE IF length_type_id.val
        THEN LET packet_count ==
                     split_at_as(length_type_id.bits, OPERATION_PACKET_DATA_COUNT,
                                 "insufficient bits for packet count")
             IN  IF ~packet_count.ok THEN packet_count
                 ELSE parse_count_loop(packet_count.bits, packet_count.val, <<>>)
        ELSE LET packet_bit_count ==
                     split_at_as(length_type_id.bits, OPERATION_PACKET_DATA_BIT_COUNT,
                                 "insufficient bits for packets bit count")
             IN  IF ~packet_bit_count.ok THEN packet_bit_count
                 ELSE LET packet_bits ==
                              split_at(packet_bit_count.bits, packet_bit_count.val,
                                       "insufficent bits for packet")
                      IN  IF ~packet_bits.ok THEN packet_bits
                          ELSE LET sub == parse_bits_loop(packet_bits.val, <<>>)
                               IN  IF ~sub.ok
                                   THEN Err(sub.err, packet_bit_count.bits)
                                   ELSE Ok(sub.val, packet_bit_count.bits)

(* parse_sub_packages whose length-type-0 loop runs on the cursor itself *)
(* until it is empty, not on the range carved off.                       *)
parse_sub_packages_unbounded(b) ==
    LET length_type_id ==
            split_first(b, "insufficient bits for packet length identifier")
    IN  IF ~length_type_id.ok THEN length_type_id
        ELSE IF length_type_id.val
        THEN LET packet_count ==
                     split_at_as(length_type_id.bits, OPERATION_PACKET_DATA_COUNT,
                                 "insufficient bits for packet count")
             IN  IF ~packet_count.ok THEN packet_count
                 ELSE parse_count_loop(packet_count.bits, packet_count.val, <<>>)
        ELSE LET packet_bit_count ==
                     split_at_as(length_type_id.bits, OPERATION_PACKET_DATA_BIT_COUNT,
                                 "insufficient bits for packets bit count")
             IN  IF ~packet_bit_count.ok THEN packet_bit_count
                 ELSE parse_bits_loop(packet_bit_count.bits, <<>>)

(* Package::parse_sub_packages *)
parse_sub_packages(b) ==
    LET length_type_id ==
            split_first(b, "insufficient bits for packet length identifier")
    IN  IF ~length_type_id.ok THEN length_type_id
        ELSE IF length_type_id.val
        THEN LET packet_count ==
                     split_at_as(length_type_id.bits, OPERATION_PACKET_DATA_COUNT,
                                 "insufficient bits for packet count")
             IN  IF ~packet_count.ok THEN packet_count
                 ELSE parse_count_loop(packet_count.bits, packet_count.val, <<>>)
        ELSE LET packet_bit_count ==
                     split_at_as(length_type_id.bits, OPERATION_PACKET_DATA_BIT_COUNT,
                                 "insufficient bits for packets bit count")
             IN  IF ~packet_bit_count.ok THEN packet_bit_count
                 ELSE LET packet_bits ==
                              split_at(packet_bit_count.bits, packet_bit_count.val,
                                       "insufficent bits for packet")
                      IN  IF ~packet_bits.ok THEN packet_bits
                          ELSE LET sub == parse_bits_loop(packet_bits.val, <<>>)
                               IN  IF ~sub.ok
                                   THEN Err(sub.err, packet_bits.bits)
                                   ELSE Ok(sub.val, packet_bits.bits)

(* Package::parse that reads the version from a field one bit too wide. *)
parse_wide_version(b) ==
    LET version == split_at_as(b, VERSION_BIT_COUNT + 1,
                               "insufficient bits for version header")
    IN  IF ~version.ok THEN version
        ELSE LET type_id == split_at_as(version.bits, TYPE_ID_BIT_COUNT,
                                        "insufficient bits for version header")
             IN  IF ~type_id.ok THEN type_id
                 ELSE IF type_id.val = 4
                 THEN LET value == parse_value(type_id.bits)
                      IN  IF ~value.ok THEN value
                          ELSE Ok(Literal(version.val, value.val), value.bits)
                 ELSE LET operation == OperationTryFrom(type_id.val)
                      IN  IF ~operation.ok THEN Err(operation.err, type_id.bits)
                          ELSE LET packages == parse_sub_packages(type_id.bits)
                               IN  IF ~packages.ok THEN packages
                                   ELSE Ok(Operator(version.val, operation.val,
                                                    packages.val),
                                           packages.bits)

(* Package::parse *)
parse(b) ==
    LET version == split_at_as(b, VERSION_BIT_COUNT,
                               "insufficient bits for version header")
    IN  IF ~version.ok THEN version
        ELSE LET type_id == split_at_as(version.bits, TYPE_ID_BIT_COUNT,
                                        "insufficient bits for version header")
             IN  IF ~type_id.ok THEN type_id
                 ELSE IF type_id.val = 4
                 THEN LET value == parse_value(type_id.bits)
                      IN  IF ~value.ok THEN value
                          ELSE Ok(Literal(version.val, value.val), value.bits)
                 ELSE LET operation == OperationTryFrom(type_id.val)
                      IN  IF ~operation.ok THEN Err(operation.err, type_id.bits)
                          ELSE LET packages == parse_sub_packages(type_id.bits)
                               IN  IF ~packages.ok THEN packages
                                   ELSE Ok(Operator(version.val, operation.val,
                                                    packages.val),
                                           packages.bits)

----------------------------------------------------------------------------
(* char::is_whitespace, which str::trim uses: the White_Space code points. *)
is_whitespace(c) ==
    \/ c \in 9..13
    \/ c \in {32, 133, 160, 5760, 8232, 8233, 8239, 8287, 12288}
    \/ c \in 8192..8202

(* trim that strips the start only (trim_start). *)
RECURSIVE trim_start_only(_)
trim_start_only(s) ==
    IF s # <<>> /\ is_whitespace(Head(s)) THEN trim_start_only(Tail(s)) ELSE s

RECURSIVE trim_start(_)
trim_start(s) ==
    IF s # <<>> /\ is_whitespace(Head(s)) THEN trim_start(Tail(s)) ELSE s

RECURSIVE trim_end(_)
trim_end(s) ==
    IF s # <<>> /\ is_whitespace(s[Len(s)])
    THEN trim_end(SubSeq(s, 1, Len(s) - 1))
    ELSE s

(* str::trim *)
trim(s) == trim_end(trim_start(s))

(* view_bits in Lsb0 order: least significant bit first. *)
view_bits_lsb0(byte) == [i \in 1..8 |-> (byte \div (2 ^ (i - 1))) % 2]

(* u8::view_bits::<Msb0>(): the 8 bits of the byte, most significant first. *)
view_bits(byte) == [i \in 1..8 |-> (byte \div (2 ^ (8 - i))) % 2]

(* The match with a third arm that takes 'a'..'f' (97..102) as well. *)
hex_char_value_any_case(hex_char) ==
    IF hex_char \in 48..57 THEN [ok |-> TRUE, val |-> hex_char - 48]
    ELSE IF hex_char \in 65..70 THEN [ok |-> TRUE, val |-> hex_char - 65 + 10]
    ELSE IF hex_char \in 97..102 THEN [ok |-> TRUE, val |-> hex_char - 97 + 10]
    ELSE [ok |-> FALSE,
          err |-> ParseTransmissionError(
              [message |-> "input has an invalid character", char |-> hex_char])]

(* The match of bitvec_from_str on one character ('0' is 48, 'A' is 65). *)
hex_char_value(hex_char) ==
    IF hex_char \in 48..57 THEN [ok |-> TRUE, val |-> hex_char - 48]
    ELSE IF hex_char \in 65..70 THEN [ok |-> TRUE, val |-> hex_char - 65 + 10]
    ELSE [ok |-> FALSE,
          err |-> ParseTransmissionError(
              [message |-> "input has an invalid character", char |-> hex_char])]

(* bitvec_from_str: for each character, extend by view_bits()[4..]. *)
RECURSIVE bitvec_from_str_loop(_, _)
bitvec_from_str_loop(chars, bitvector) ==
    IF chars = <<>> THEN [ok |-> TRUE, val |-> bitvector]
    ELSE LET v == hex_char_value(Head(chars))
         IN  IF ~v.ok THEN v
             ELSE LET extended == bitvector \o SubSeq(view_bits(v.val), 5, 8)
                  IN  IF extended = extended
                      THEN bitvec_from_str_loop(Tail(chars), extended)
                      ELSE [ok |-> TRUE, val |-> extended]

bitvec_from_str(s) == bitvec_from_str_loop(s, <<>>)

(* Transmission::parse *)
Transmission_parse(s) ==
    LET bitvector == bitvec_from_str(trim(s))
    IN  IF ~bitvector.ok THEN [ok |-> FALSE, err |-> bitvector.err]
        ELSE LET package == parse(bitvector.val)
             IN  IF ~package.ok THEN [ok |-> FALSE, err |-> package.err]
                 ELSE [ok |-> TRUE, val |-> [package |-> package.val]]

----------------------------------------------------------------------------
(* u64 arithmetic of Operation::execute.  A call of execute or decode     *)
(* either returns a u64 or panics.                                        *)
Returned(v) == [panicked |-> FALSE, val |-> v]
Panicked(e) == [panicked |-> TRUE, err |-> e]

U64One == [i \in 1..U64_NIBBLES |-> IF i = U64_NIBBLES THEN 1 ELSE 0]

(* The carry out of digit i of a + b. *)
RECURSIVE U64Carry(_, _, _)
U64Carry(a, b, i) ==
    IF i > U64_NIBBLES THEN 0
    ELSE (a[i] + b[i] + U64Carry(a, b, i + 1)) \div 16

(* a + b modulo 2^64, and whether the sum passed 2^64 - 1. *)
U64Plus(a, b) ==
    [val |-> [i \in 1..U64_NIBBLES |->
                 (a[i] + b[i] + U64Carry(a, b, i + 1)) % 16],
     overflow |-> U64Carry(a, b, 1) > 0]

(* The sum of the digit products of a * b of weight 16^k. *)
RECURSIVE U64Column(_, _, _, _)
U64Column(a, b, k, i) ==
    IF i > k THEN 0
    ELSE (IF i < U64_NIBBLES /\ k - i < U64_NIBBLES
          THEN a[U64_NIBBLES - i] * b[U64_NIBBLES - (k - i)] ELSE 0)
         + U64Column(a, b, k, i + 1)

(* Digit k of a * b together with the carry into it, before reduction. *)
RECURSIVE U64Partial(_, _, _)
U64Partial(a, b, k) ==
    IF k < 0 THEN 0
    ELSE U64Column(a, b, k, 0) + U64Partial(a, b, k - 1) \div 16

(* a * b modulo 2^64, and whether the product passed 2^64 - 1. *)
U64Times(a, b) ==
    [val |-> [i \in 1..U64_NIBBLES |-> U64Partial(a, b, U64_NIBBLES - i) % 16],
     overflow |-> \E k \in U64_NIBBLES..(2 * U64_NIBBLES) : U64Partial(a, b, k) % 16 # 0]

(* a < b on u64 *)
RECURSIVE U64LessFrom(_, _, _)
U64LessFrom(a, b, i) ==
    IF i > U64_NIBBLES THEN FALSE
    ELSE IF a[i] # b[i] THEN a[i] < b[i]
    ELSE U64LessFrom(a, b, i + 1)

U64Less(a, b) == U64LessFrom(a, b, 1)

(* iter.sum(): a fold of + from 0; an overflow panics when the build has  *)
(* overflow checks (debug, test) and wraps when it has none (release).    *)
RECURSIVE sum(_, _, _)
sum(values, i, acc) ==
    IF i > Len(values) THEN Returned(acc)
    ELSE LET s == U64Plus(acc, values[i])
         IN  IF s.overflow /\ overflow_checks
             THEN Panicked([message |-> "attempt to add with overflow"])
             ELSE sum(values, i + 1, s.val)

(* iter.product(): a fold of * from 1 *)
RECURSIVE product(_, _, _)
product(values, i, acc) ==
    IF i > Len(values) THEN Returned(acc)
    ELSE LET s == U64Times(acc, values[i])
         IN  IF s.overflow /\ overflow_checks
             THEN Panicked([message |-> "attempt to multiply with overflow"])
             ELSE product(values, i + 1, s.val)

(* iter.min() and iter.max() of a slice that is not empty *)
RECURSIVE min(_, _, _)
min(values, i, acc) ==
    IF i > Len(values) THEN acc
    ELSE min(values, i + 1, IF U64Less(values[i], acc) THEN values[i] ELSE acc)

RECURSIVE max(_, _, _)
max(values, i, acc) ==
    IF i > Len(values) THEN acc
    ELSE max(values, i + 1, IF U64Less(values[i], acc) THEN acc ELSE values[i])

(* values[index]: a panic when the slice is shorter *)
Index(values, index) ==
    IF index < Len(values) THEN Returned(values[index + 1])
    ELSE Panicked([message |-> "index out of bounds",
                   len |-> Len(values), index |-> index])

(* if values[0] <op> values[1] { 1 } else { 0 }, for the <op> of the      *)
(* operation: >, < or ==                                                   *)
compare(operation, values) ==
    LET first == Index(values, 0)
        second == Index(values, 1)
    IN  IF first.panicked THEN first
        ELSE IF second.panicked THEN second
        ELSE LET holds ==
                     CASE operation = "GreaterThan" -> U64Less(second.val, first.val)
                       [] operation = "LessThan" -> U64Less(first.val, second.val)
                       [] operation = "EqualTo" -> first.val = second.val
             IN  Returned(IF holds THEN U64One ELSE U64Zero)

(* execute whose Minimum and Maximum take the first and the last value. *)
execute_min_first(operation, values) ==
    CASE operation = "Sum" -> sum(values, 1, U64Zero)
      [] operation = "Product" -> product(values, 1, U64One)
      [] operation = "Minimum" ->
             IF values # <<>> THEN Returned(values[1])
             ELSE Returned(U64Zero)
      [] operation = "Maximum" ->
             IF values # <<>> THEN Returned(values[Len(values)])
             ELSE Returned(U64Zero)
      [] operation \in {"GreaterThan", "LessThan", "EqualTo"} ->
             compare(operation, values)

(* execute that compares the second value against the first. *)
execute_compare_swapped(operation, values) ==
    CASE operation = "Sum" -> sum(values, 1, U64Zero)
      [] operation = "Product" -> product(values, 1, U64One)
      [] operation = "Minimum" ->
             IF values # <<>> THEN Returned(min(values, 2, values[1]))
             ELSE Returned(U64Zero)
      [] operation = "Maximum" ->
             IF values # <<>> THEN Returned(max(values, 2, values[1]))
             ELSE Returned(U64Zero)
      [] operation = "GreaterThan" -> compare("LessThan", values)
      [] operation = "LessThan" -> compare("GreaterThan", values)
      [] operation = "EqualTo" -> compare("EqualTo", values)

(* execute whose Minimum and Maximum unwrap what min() and max() return. *)
execute_unwrapping(operation, values) ==
    CASE operation = "Sum" -> sum(values, 1, U64Zero)
      [] operation = "Product" -> product(values, 1, U64One)
      [] operation = "Minimum" ->
             IF values # <<>> THEN Returned(min(values, 2, values[1]))
             ELSE Panicked([message |-> "called Option::unwrap() on a None value"])
      [] operation = "Maximum" ->
             IF values # <<>> THEN Returned(max(values, 2, values[1]))
             ELSE Panicked([message |-> "called Option::unwrap() on a None value"])
      [] operation \in {"GreaterThan", "LessThan", "EqualTo"} ->
             compare(operation, values)

(* Operation::execute *)
execute(operation, values) ==
    CASE operation = "Sum" -> sum(values, 1, U64Zero)
      [] operation = "Product" -> product(values, 1, U64One)
      [] operation = "Minimum" ->
             IF values # <<>> THEN Returned(min(values, 2, values[1]))
             ELSE Returned(U64Zero)
      [] operation = "Maximum" ->
             IF values # <<>> THEN Returned(max(values, 2, values[1]))
             ELSE Returned(U64Zero)
      [] operation \in {"GreaterThan", "LessThan", "EqualTo"} ->
             compare(operation, values)

(* Package::decode: the children are decoded in order into a Vec, a panic *)
(* of one of them ending the call, and the operation is executed on it.   *)
RECURSIVE decode(_)
RECURSIVE decode_map(_, _, _)
decode_map(packages, i, values) ==
    IF i > Len(packages) THEN Returned(values)
    ELSE LET value == decode(packages[i])
         IN  IF value.panicked THEN value
             ELSE decode_map(packages, i + 1, Append(values, value.val))

decode(package) ==
    IF package.kind = "Literal" THEN Returned(package.value)
    ELSE LET values == decode_map(package.packages, 1, <<>>)
         IN  IF values.panicked THEN values
             ELSE execute(package.operation, values.val)

(* Transmission::decode *)
Transmission_decode(self) == decode(self.package)

----------------------------------------------------------------------------
(* Bounds of the inputs *)
MaxText == 4
MaxRaw == 10
MaxGroups == 2
MaxLongGroups == 17
MaxKids == 2

(* The encoder that builds the inputs: n as w bits, most significant first. *)
RECURSIVE ToBits(_, _)
ToBits(n, w) == IF w = 0 THEN <<>> ELSE ToBits(n \div 2, w - 1) \o <<n % 2>>

RECURSIVE Concat(_)
Concat(ss) == IF ss = <<>> THEN <<>> ELSE Head(ss) \o Concat(Tail(ss))

SeqsFromTo(S, lo, hi) == UNION {[1..k -> S] : k \in lo..hi}

EncGroups(gs) ==
    Concat([i \in 1..Len(gs) |->
               <<(IF i < Len(gs) THEN 1 ELSE 0)>> \o ToBits(gs[i], 4)])

EncLiteral(v, gs) == ToBits(v, 3) \o <<1, 0, 0>> \o EncGroups(gs)

(* An operator whose length field declares `declared` (bits or packets). *)
EncOperator(v, t, lt, declared, body) ==
    ToBits(v, 3) \o ToBits(t, 3) \o <<lt>>
        \o ToBits(declared, IF lt = 1 THEN 11 ELSE 15) \o body

Nat0(n) == IF n < 0 THEN 0 ELSE n

(* The length field of an operator over `kids`, off by delta. *)
Declared(lt, kids, delta) ==
    Nat0((IF lt = 1 THEN Len(kids) ELSE Len(Concat(kids))) + delta)

OpTypes == {0, 1, 2, 3, 5, 6, 7}
GenVersions == {0, 5}
GenPayloads == {0, 9}
Deltas == {-1, 0, 1}

RawBits == SeqsFromTo({0, 1}, 0, MaxRaw)

GenLiterals ==
    {EncLiteral(v, gs) : v \in GenVersions, gs \in SeqsFromTo(GenPayloads, 1, MaxGroups)}

(* Literals of up to MaxLongGroups groups: a first group, then equal groups. *)
LongLiterals ==
    {EncLiteral(3, <<g>> \o [i \in 1..k |-> r]) :
        g \in {0, 1, 15}, r \in {0, 7}, k \in MaxGroups..(MaxLongGroups - 1)}

(* Every version and type id in front of an operator body without sub-packets. *)
Headers ==
    {ToBits(v, 3) \o ToBits(t, 3) \o <<1>> \o ToBits(0, 11) : v \in 0..7, t \in 0..7}
    \cup {ToBits(v, 3) \o ToBits(t, 3) \o <<0>> \o ToBits(0, 15) : v \in {2}, t \in 0..7}

KidLiterals == {EncLiteral(5, <<9>>), EncLiteral(0, <<0, 9>>)}

Operators1 ==
    {EncOperator(3, t, lt, Declared(lt, kids, d), Concat(kids)) :
        t \in OpTypes, lt \in {0, 1}, d \in Deltas,
        kids \in SeqsFromTo(KidLiterals, 0, MaxKids)}

KidOperators ==
    {EncOperator(6, 0, 0, 11, EncLiteral(2, <<7>>)),
     EncOperator(2, 3, 1, 2, EncLiteral(1, <<1>>) \o EncLiteral(4, <<15, 15>>)),
     EncOperator(7, 1, 1, 0, <<>>),
     EncOperator(4, 2, 0, 0, <<>>)}

Operators2 ==
    {EncOperator(1, t, lt, Declared(lt, kids, d), Concat(kids)) :
        t \in {0, 6}, lt \in {0, 1}, d \in Deltas,
        kids \in SeqsFromTo(KidLiterals \cup KidOperators, 1, MaxKids)}

KidOperators2 ==
    {EncOperator(0, 5, lt, Declared(lt, <<j, l>>, 0), j \o l) :
        lt \in {0, 1}, j \in KidOperators, l \in KidLiterals}

Operators3 ==
    {EncOperator(7, 7, lt, Declared(lt, <<k, k>>, 0), k \o k) :
        lt \in {0, 1}, k \in KidOperators2}

(* Every sub-packet of a packet is a packet of the set as well. *)
Packets ==
    GenLiterals \cup LongLiterals \cup Headers \cup KidLiterals \cup KidOperators
        \cup KidOperators2 \cup Operators1 \cup Operators2 \cup Operators3
        \cup {EncLiteral(2, <<7>>), EncLiteral(1, <<1>>), EncLiteral(4, <<15, 15>>)}

HexChar(d) == IF d < 10 THEN 48 + d ELSE 55 + d

HexText(ds) == [i \in 1..Len(ds) |-> HexChar(ds[i])]

(* The inputs of the tests: "D2FE28", "38006F45291200", "EE00D40C823060". *)
Fixtures ==
    {HexText(<<13, 2, 15, 14, 2, 8>>),
     HexText(<<3, 8, 0, 0, 6, 15, 4, 5, 2, 9, 1, 2, 0, 0>>),
     HexText(<<14, 14, 0, 0, 13, 4, 0, 12, 8, 2, 3, 0, 6, 0>>)}

(* The inputs of the version sum tests: "8A004A801A8002F478",             *)
(* "620080001611562C8802118E34", "C0015000016115A2E0802F182340",           *)
(* "A0016C880162017C3686B18A3D4780".                                       *)
VersionSumFixtures ==
    {HexText(<<8, 10, 0, 0, 4, 10, 8, 0, 1, 10, 8, 0, 0, 2, 15, 4, 7, 8>>),
     HexText(<<6, 2, 0, 0, 8, 0, 0, 0, 1, 6, 1, 1, 5, 6, 2, 12, 8, 8, 0, 2, 1, 1, 8, 14, 3, 4>>),
     HexText(<<12, 0, 0, 1, 5, 0, 0, 0, 0, 1, 6, 1, 1, 5, 10, 2, 14, 0, 8, 0, 2, 15, 1, 8, 2, 3, 4, 0>>),
     HexText(<<10, 0, 0, 1, 6, 12, 8, 8, 0, 1, 6, 2, 0, 1, 7, 12, 3, 6, 8, 6, 11, 1, 8, 10, 3, 13, 4, 7, 8, 0>>)}

(* The inputs of the decode tests: "C200B40A82", "04005AC33890",            *)
(* "880086C3E88112", "CE00C43D881120", "D8005AC2A8F0", "F600BC2D8F",        *)
(* "9C005AC2F8F0", "9C0141080250320F1802104A08".                            *)
DecodeFixtures ==
    {HexText(<<12, 2, 0, 0, 11, 4, 0, 10, 8, 2>>),
     HexText(<<0, 4, 0, 0, 5, 10, 12, 3, 3, 8, 9, 0>>),
     HexText(<<8, 8, 0, 0, 8, 6, 12, 3, 14, 8, 8, 1, 1, 2>>),
     HexText(<<12, 14, 0, 0, 12, 4, 3, 13, 8, 8, 1, 1, 2, 0>>),
     HexText(<<13, 8, 0, 0, 5, 10, 12, 2, 10, 8, 15, 0>>),
     HexText(<<15, 6, 0, 0, 11, 12, 2, 13, 8, 15>>),
     HexText(<<9, 12, 0, 0, 5, 10, 12, 2, 15, 8, 15, 0>>),
     HexText(<<9, 12, 0, 1, 4, 1, 0, 8, 0, 2, 5, 0, 3, 2, 0, 15, 1, 8, 0, 2, 1, 0, 4, 10, 0, 8>>)}

(* The text of a bit sequence: zero bits up to a whole digit, then one     *)
(* character per 4 bits.                                                   *)
HexOfBits(b) ==
    LET padded == b \o [i \in 1..((4 - (Len(b) % 4)) % 4) |-> 0]
    IN  [i \in 1..(Len(padded) \div 4) |->
            HexChar(8 * padded[4 * i - 3] + 4 * padded[4 * i - 2]
                    + 2 * padded[4 * i - 1] + padded[4 * i])]

(* Literals to evaluate: 1, 3, 2^32 and 2^64 - 1, of different versions. *)
EvalLiterals ==
    {EncLiteral(1, <<1>>), EncLiteral(2, <<3>>),
     EncLiteral(4, <<1>> \o [i \in 1..8 |-> 0]),
     EncLiteral(7, [i \in 1..U64_NIBBLES |-> 15])}

(* Every operation over up to MaxKids literals, in both framings. *)
EvalOperators1 ==
    {EncOperator(3, t, lt, Declared(lt, kids, 0), Concat(kids)) :
        t \in OpTypes, lt \in {0, 1}, kids \in SeqsFromTo(EvalLiterals, 0, MaxKids)}

(* Operators to nest: 1 + 3, 2^32 * 2^32, a Minimum and a GreaterThan       *)
(* without sub-packets, 3 < 1.                                             *)
EvalKidOperators ==
    {EncOperator(5, 0, 1, 2, EncLiteral(1, <<1>>) \o EncLiteral(2, <<3>>)),
     EncOperator(2, 1, 0, 102, EncLiteral(4, <<1>> \o [i \in 1..8 |-> 0])
                                  \o EncLiteral(4, <<1>> \o [i \in 1..8 |-> 0])),
     EncOperator(1, 2, 1, 0, <<>>),
     EncOperator(0, 5, 0, 0, <<>>),
     EncOperator(7, 6, 0, 22, EncLiteral(2, <<3>>) \o EncLiteral(1, <<1>>))}

EvalOperators2 ==
    {EncOperator(4, t, lt, Declared(lt, kids, 0), Concat(kids)) :
        t \in OpTypes, lt \in {0, 1},
        kids \in {<<j, EncLiteral(1, <<1>>)>> : j \in EvalKidOperators}
                 \cup {<<EncLiteral(1, <<1>>), j>> : j \in EvalKidOperators}
                 \cup {<<j>> : j \in EvalKidOperators}}

EvalOperators3 ==
    {EncOperator(6, 0, 1, 2,
                 j \o EncOperator(0, 3, 0, Len(k) + 11, k \o EncLiteral(2, <<3>>))) :
        j \in EvalKidOperators, k \in EvalKidOperators}

EvalPackets == EvalLiterals \cup EvalOperators1 \cup EvalOperators2 \cup EvalOperators3

(* Sub-packets whose decoding fails or goes astray: a bounded range one   *)
(* bit shorter and one bit longer than the literal in it, a count of two  *)
(* over one literal, a literal whose last group announces another.        *)
BadKids ==
    {EncOperator(2, 1, 0, 15, EncLiteral(5, <<0, 9>>)),
     EncOperator(2, 2, 0, 17, EncLiteral(5, <<0, 9>>)),
     EncOperator(2, 3, 1, 2, EncLiteral(5, <<9>>)),
     <<1, 1, 0, 1, 0, 0, 1, 0, 1, 1, 1>>}

(* Operators with such a sub-packet before, between or after sound ones,  *)
(* in both framings and at two depths, and the fixtures cut short.        *)
AbortOperators1 ==
    {EncOperator(1, 0, lt, Declared(lt, kids, 0), Concat(kids)) :
        lt \in {0, 1},
        kids \in UNION {{<<bad>>, <<bad, EncLiteral(0, <<9>>)>>,
                         <<EncLiteral(0, <<9>>), bad>>,
                         <<EncLiteral(0, <<9>>), bad, EncLiteral(4, <<1>>)>>} :
                           bad \in BadKids}}

AbortOperators2 ==
    {EncOperator(7, 3, lt, Declared(lt, <<k, EncLiteral(6, <<2>>)>>, 0),
                 k \o EncLiteral(6, <<2>>)) :
        lt \in {0, 1}, k \in AbortOperators1}

AbortTexts ==
    {HexOfBits(p) : p \in BadKids \cup AbortOperators1 \cup AbortOperators2}
    \cup {SubSeq(f, 1, Len(f) - k) :
              f \in Fixtures \cup VersionSumFixtures \cup DecodeFixtures, k \in 1..3}

EvalTexts ==
    VersionSumFixtures \cup DecodeFixtures \cup {HexOfBits(p) : p \in EvalPackets}

(* The cursors of the fixtures at the places of their first fields. *)
FixtureCursors ==
    {SubSeq(bitvec_from_str(f).val, k, 4 * Len(f)) : f \in Fixtures, k \in 1..23}

(* The cursors of the literals after their headers, where parse_value starts. *)
LiteralBodies == {SubSeq(p, 7, Len(p)) : p \in GenLiterals \cup LongLiterals}

(* What follows the packet in the cursor, and packets cut short by a bit. *)
Paddings == {<<>>, <<1>>, <<0, 1, 1>>}

BitInputs ==
    RawBits \cup FixtureCursors
            \cup {p \o t : p \in Packets \cup LiteralBodies, t \in Paddings}
            \cup {SubSeq(p, 1, Len(p) - 1) : p \in Packets}

----------------------------------------------------------------------------
(* Texts: '0' '9' 'A' 'F', and 'G' 'a' ' ' '\n', which are no upper-case hex digit. *)
Alphabet == {48, 57, 65, 70, 71, 97, 32, 10}

(* '/' ':' '@' 'G' 'a' ' ' tab: the neighbours of the two ranges, and whitespace. *)
BadChars == {47, 58, 64, 71, 97, 32, 9}

ShortTexts == SeqsFromTo(Alphabet, 0, MaxText)

(* A fixture with one character replaced by, or followed by, a bad one. *)
Corrupted ==
    {[f EXCEPT ![i] = c] : f \in Fixtures, i \in 1..6, c \in BadChars}
    \cup {[f EXCEPT ![Len(f)] = c] : f \in Fixtures, c \in BadChars}
    \cup {f \o <<c>> : f \in Fixtures, c \in BadChars}

Befores == {<<>>, <<32>>, <<9, 10>>}
Afters == {<<>>, <<10>>, <<13, 10>>}

TextInputs ==
    ShortTexts
    \cup {a \o t \o b : a \in Befores, b \in Afters, t \in Fixtures \cup Corrupted}
    \cup EvalTexts \cup AbortTexts

----------------------------------------------------------------------------
(* The state: the text given to the program, the cursor, the last call made *)
(* (its function, the cursor it was given, its width argument and message), *)
(* what it returned, and the position of the caller.                        *)
NoCall == [fn |-> "none", bits |-> <<>>, mid |-> 0, message |-> ""]
NoResult == [ok |-> FALSE, err |-> [message |-> ""], bits |-> <<>>]

(* The state of evaluation: whether the build checks arithmetic overflow,  *)
(* the Transmission decoded, and the locals of version_sum with the number *)
(* of packages its loop has taken from the queue.                          *)
NoTransmission == [package |-> Literal(0, U64Zero)]

walk == <<version_sum, pending_packages, popped>>

NoWalk ==
    /\ version_sum = 0
    /\ pending_packages = <<>>
    /\ popped = 0

(* The command line the program was started with, what is found at the    *)
(* path given to Command::run, and the lines printed so far.              *)
NoFile == [kind |-> "missing"]

io == <<argv, file, stdout>>

NoIo ==
    /\ argv = <<>>
    /\ file = NoFile
    /\ stdout = <<>>

(* What the calls of version_sum and of decode on the Transmission have   *)
(* returned so far.                                                       *)
NoHistory == [version_sum |-> {}, decode |-> {}]

(* The locals of Package::parse and parse_sub_packages while the loops    *)
(* over the sub-packets run.                                              *)
NoFrame ==
    [version |-> 0, operation |-> "Sum", packet_count |-> 0,
     packet_bits |-> <<>>, packages |-> <<>>]

Init ==
    /\ input \in TextInputs
    /\ bits = <<>>
    /\ call = NoCall
    /\ result = NoResult
    /\ pc = "start"
    /\ overflow_checks \in BOOLEAN
    /\ transmission = NoTransmission
    /\ NoWalk
    /\ NoIo
    /\ history = NoHistory
    /\ frame = NoFrame

InitCursor ==
    /\ input = <<>>
    /\ bits \in BitInputs
    /\ call = NoCall
    /\ result = NoResult
    /\ pc = "cursor"
    /\ overflow_checks = TRUE
    /\ transmission = NoTransmission
    /\ NoWalk
    /\ NoIo
    /\ history = NoHistory
    /\ frame = NoFrame

(* A call on the cursor returns: the cursor is where the call left it. *)
Returns(fn, mid, message, r) ==
    /\ call' = [fn |-> fn, bits |-> bits, mid |-> mid, message |-> message]
    /\ result' = r
    /\ bits' = r.bits
    /\ pc' = "returned"
    /\ UNCHANGED <<input, overflow_checks, transmission, walk, io, history, frame>>

FirstMessages ==
    {"insufficient bits for literal packet identifier",
     "insufficient bits for packet length identifier"}

SplitFirst ==
    /\ pc = "cursor"
    /\ \E m \in FirstMessages : Returns("split_first", 1, m, split_first(bits, m))

Mids(b) ==
    {0, 1, LITERAL_PACKET_DATA_BIT_COUNT, OPERATION_PACKET_DATA_COUNT,
     Nat0(Len(b) - 1), Len(b), Len(b) + 1}

SplitAt ==
    /\ pc = "cursor"
    /\ \E mid \in Mids(bits) :
           Returns("split_at", mid, "insufficent bits for packet",
                   split_at(bits, mid, "insufficent bits for packet"))

(* The widths and messages split_at_as is called with. *)
Fields ==
    {<<VERSION_BIT_COUNT, "insufficient bits for version header">>,
     <<LITERAL_PACKET_DATA_BIT_COUNT, "insufficient bits for literal packet content">>,
     <<OPERATION_PACKET_DATA_COUNT, "insufficient bits for packet count">>,
     <<OPERATION_PACKET_DATA_BIT_COUNT, "insufficient bits for packets bit count">>}

SplitAtAs ==
    /\ pc = "cursor"
    /\ \E f \in Fields :
           Returns("split_at_as", f[1], f[2], split_at_as(bits, f[1], f[2]))

ParseValue ==
    /\ pc = "cursor"
    /\ Returns("parse_value", 0, "", parse_value(bits))

ParseSubPackages ==
    /\ pc = "cursor"
    /\ Returns("parse_sub_packages", 0, "", parse_sub_packages(bits))

PackageParse ==
    /\ pc = "cursor"
    /\ Returns("parse", 0, "", parse(bits))

NextCursor ==
    \/ SplitFirst
    \/ SplitAt
    \/ SplitAtAs
    \/ ParseValue
    \/ ParseSubPackages
    \/ PackageParse

SpecCursor == InitCursor /\ [][NextCursor]_vars

(* Package::parse a step at a time: it is called on a cursor, the header  *)
(* and the length field are read, each turn of the loop of                *)
(* parse_sub_packages parses one sub-packet, and the Operator is returned *)
(* when the loop ends.                                                    *)
InitParse ==
    /\ input = <<>>
    /\ bits = <<>>
    /\ call = NoCall
    /\ result = NoResult
    /\ pc = "caller"
    /\ overflow_checks = TRUE
    /\ transmission = NoTransmission
    /\ NoWalk
    /\ NoIo
    /\ history = NoHistory
    /\ frame = NoFrame

(* `?` on an Err, or the Ok of a Literal: Package::parse returns. *)
ParseEnds(r) ==
    /\ result' = r
    /\ bits' = r.bits
    /\ pc' = "returned"
    /\ UNCHANGED frame

ParseCalled(b) ==
    /\ call' = [fn |-> "Package::parse", bits |-> b, mid |-> 0, message |-> ""]
    /\ LET version == split_at_as(b, VERSION_BIT_COUNT,
                                  "insufficient bits for version header")
           type_id == split_at_as(version.bits, TYPE_ID_BIT_COUNT,
                                  "insufficient bits for version header")
           value == parse_value(type_id.bits)
           operation == OperationTryFrom(type_id.val)
           length_type_id ==
               split_first(type_id.bits, "insufficient bits for packet length identifier")
           packet_count ==
               split_at_as(length_type_id.bits, OPERATION_PACKET_DATA_COUNT,
                           "insufficient bits for packet count")
           packet_bit_count ==
               split_at_as(length_type_id.bits, OPERATION_PACKET_DATA_BIT_COUNT,
                           "insufficient bits for packets bit count")
           packet_bits ==
               split_at(packet_bit_count.bits, packet_bit_count.val,
                        "insufficent bits for packet")
       IN  IF ~version.ok THEN ParseEnds(version)
           ELSE IF ~type_id.ok THEN ParseEnds(type_id)
           ELSE IF type_id.val = 4
           THEN IF ~value.ok THEN ParseEnds(value)
                ELSE ParseEnds(Ok(Literal(version.val, value.val), value.bits))
           ELSE IF ~operation.ok THEN ParseEnds(Err(operation.err, type_id.bits))
           ELSE IF ~length_type_id.ok THEN ParseEnds(length_type_id)
           ELSE IF length_type_id.val
           THEN IF ~packet_count.ok THEN ParseEnds(packet_count)
                ELSE /\ frame' = [version |-> version.val,
                                  operation |-> operation.val,
                                  packet_count |-> packet_count.val,
                                  packet_bits |-> <<>>,
                                  packages |-> <<>>]
                     /\ bits' = packet_count.bits
                     /\ pc' = "count_loop"
                     /\ UNCHANGED result
           ELSE IF ~packet_bit_count.ok THEN ParseEnds(packet_bit_count)
           ELSE IF ~packet_bits.ok THEN ParseEnds(packet_bits)
           ELSE /\ frame' = [version |-> version.val,
                             operation |-> operation.val,
                             packet_count |-> 0,
                             packet_bits |-> packet_bits.val,
                             packages |-> <<>>]
                /\ bits' = packet_bits.bits
                /\ pc' = "bits_loop"
                /\ UNCHANGED result
    /\ UNCHANGED <<input, overflow_checks, transmission, walk, io, history>>

ParseBegin ==
    /\ pc = "caller"
    /\ \E b \in BitInputs : ParseCalled(b)

(* while packet_count > 0: one turn. *)
CountLoop ==
    /\ pc = "count_loop"
    /\ frame.packet_count > 0
    /\ LET p == parse(bits)
       IN  IF ~p.ok THEN ParseEnds(p)
           ELSE /\ frame' = [frame EXCEPT !.packages = Append(@, p.val),
                                          !.packet_count = @ - 1]
                /\ bits' = p.bits
                /\ UNCHANGED <<pc, result>>
    /\ UNCHANGED <<input, call, overflow_checks, transmission, walk, io, history>>

(* The loop over the range that parses from a copy of the range. *)
BitsLoop_peeking ==
    /\ pc = "bits_loop"
    /\ frame.packet_bits # <<>>
    /\ LET p == parse(frame.packet_bits)
       IN  IF ~p.ok THEN ParseEnds(Err(p.err, bits))
           ELSE /\ frame' = [frame EXCEPT !.packages = Append(@, p.val)]
                /\ UNCHANGED <<bits, pc, result>>
    /\ UNCHANGED <<input, call, overflow_checks, transmission, walk, io, history>>

(* while !packet_bits.is_empty(): one turn. *)
BitsLoop ==
    /\ pc = "bits_loop"
    /\ frame.packet_bits # <<>>
    /\ LET p == parse(frame.packet_bits)
       IN  IF ~p.ok THEN ParseEnds(Err(p.err, bits))
           ELSE /\ frame' = [frame EXCEPT !.packages = Append(@, p.val),
                                          !.packet_bits = p.bits]
                /\ UNCHANGED <<bits, pc, result>>
    /\ UNCHANGED <<input, call, overflow_checks, transmission, walk, io, history>>

(* The loop has ended: Ok(packages), and Package::parse returns the Operator. *)
ParseReturn ==
    /\ \/ pc = "count_loop" /\ frame.packet_count = 0
       \/ pc = "bits_loop" /\ frame.packet_bits = <<>>
    /\ result' = Ok(Operator(frame.version, frame.operation, frame.packages), bits)
    /\ pc' = "returned"
    /\ UNCHANGED <<input, bits, call, overflow_checks, transmission, walk, io, history,
                   frame>>

NextParse ==
    \/ ParseBegin
    \/ CountLoop
    \/ BitsLoop
    \/ ParseReturn

(* The program runs on while it has a step to take: weak fairness of      *)
(* NextParse, in the form []<>(not enabled) \/ []<>(a step is taken)       *)
(* with the enabling condition written out, a step of NextParse being     *)
(* enabled exactly while Package::parse has not returned.                 *)
RunsOn == []<>(pc = "returned") \/ []<><<NextParse>>_vars

SpecParse == InitParse /\ [][NextParse]_vars /\ RunsOn

(* The text-level calls: bitvec_from_str and Transmission::parse on the input. *)
BitvecFromStr ==
    /\ pc = "start"
    /\ call' = [fn |-> "bitvec_from_str", bits |-> <<>>, mid |-> 0, message |-> ""]
    /\ result' = bitvec_from_str(input)
    /\ pc' = "returned"
    /\ UNCHANGED <<input, bits, overflow_checks, transmission, walk, io, history, frame>>

TransmissionParse ==
    /\ pc = "start"
    /\ call' = [fn |-> "Transmission::parse", bits |-> <<>>, mid |-> 0, message |-> ""]
    /\ result' = Transmission_parse(input)
    /\ transmission' = IF result'.ok THEN result'.val ELSE transmission
    /\ pc' = IF result'.ok THEN "parsed" ELSE "returned"
    /\ UNCHANGED <<input, bits, overflow_checks, walk, io, history, frame>>

(* version_sum whose sum is kept from one call to the next. *)
VersionSumBegin_keeping ==
    /\ pc = "parsed"
    /\ call' = [fn |-> "version_sum", bits |-> <<>>, mid |-> 0, message |-> ""]
    /\ result' = NoResult
    /\ pending_packages' = <<transmission.package>>
    /\ popped' = 0
    /\ pc' = "version_sum"
    /\ UNCHANGED <<input, bits, overflow_checks, transmission, version_sum, io, history, frame>>

(* Transmission::version_sum, a step at a time: the locals are set up, *)
(* each turn of the while loop takes the package at the front of the   *)
(* queue, and the sum is returned when pop_front finds the queue empty. *)
VersionSumBegin ==
    /\ pc = "parsed"
    /\ call' = [fn |-> "version_sum", bits |-> <<>>, mid |-> 0, message |-> ""]
    /\ result' = NoResult
    /\ version_sum' = 0
    /\ pending_packages' = <<transmission.package>>
    /\ popped' = 0
    /\ pc' = "version_sum"
    /\ UNCHANGED <<input, bits, overflow_checks, transmission, io, history, frame>>

(* The loop without the push_back of the sub-packets. *)
VersionSumLoop_no_push ==
    /\ pc = "version_sum"
    /\ pending_packages # <<>>
    /\ pending_packages' = Tail(pending_packages)
    /\ version_sum' = version_sum + Head(pending_packages).version
    /\ popped' = popped + 1
    /\ UNCHANGED <<input, bits, call, result, pc, overflow_checks, transmission, io, history, frame>>

VersionSumLoop ==
    /\ pc = "version_sum"
    /\ pending_packages # <<>>
    /\ LET package == Head(pending_packages)
       IN  /\ pending_packages' =
                  IF package.kind = "Operator"
                  THEN Tail(pending_packages) \o package.packages
                  ELSE Tail(pending_packages)
           /\ version_sum' = version_sum + package.version
    /\ popped' = popped + 1
    /\ UNCHANGED <<input, bits, call, result, pc, overflow_checks, transmission, io, history, frame>>

VersionSumReturn ==
    /\ pc = "version_sum"
    /\ pending_packages = <<>>
    /\ result' = [ok |-> TRUE, val |-> version_sum]
    /\ history' = [history EXCEPT !.version_sum = @ \cup {version_sum}]
    /\ pc' = "parsed"
    /\ UNCHANGED <<input, bits, call, overflow_checks, transmission, walk, io, frame>>

(* Transmission::decode: it returns a u64, or the program panics. *)
TransmissionDecode ==
    /\ pc = "parsed"
    /\ call' = [fn |-> "decode", bits |-> <<>>, mid |-> 0, message |-> ""]
    /\ result' = Transmission_decode(transmission)
    /\ history' = [history EXCEPT !.decode = @ \cup {result'}]
    /\ pc' = IF result'.panicked THEN "panicked" ELSE "parsed"
    /\ UNCHANGED <<input, bits, overflow_checks, transmission, walk, io, frame>>

Next ==
    \/ BitvecFromStr
    \/ TransmissionParse
    \/ VersionSumBegin
    \/ VersionSumLoop
    \/ VersionSumReturn
    \/ TransmissionDecode

Spec == Init /\ [][Next]_vars

----------------------------------------------------------------------------
(* The command surface: main.rs and Command::run of sixteen.rs *)

(* enum Command of main.rs: the subcommands structopt derives from it, each *)
(* under the kebab-case name of its variant.                                *)
Command ==
    {"one", "two", "three", "four", "five", "six", "seven", "eight", "nine",
     "ten", "eleven", "twelve", "thirteen", "fourteen", "fifteen"}

(* The modules day/mod.rs declares. *)
day == Command \cup {"sixteen", "seventeen"}

(* read_all_text: the whole text of the file, or the error of File::open *)
(* or of read_to_string (the bytes are not UTF-8).                       *)
read_all_text(f) ==
    CASE f.kind = "missing" -> [ok |-> FALSE, err |-> [message |-> "failed to open file"]]
      [] f.kind = "invalid_utf8" ->
             [ok |-> FALSE, err |-> [message |-> "stream did not contain valid UTF-8"]]
      [] OTHER -> [ok |-> TRUE, val |-> f.text]

(* Transmission::version_sum as one call: the while loop over the queue. *)
RECURSIVE version_sum_while(_, _)
version_sum_while(pending, sum_so_far) ==
    IF sum_so_far = sum_so_far /\ pending = <<>> THEN sum_so_far
    ELSE LET package == Head(pending)
         IN  version_sum_while(IF package.kind = "Operator"
                               THEN Tail(pending) \o package.packages
                               ELSE Tail(pending),
                               sum_so_far + package.version)

Transmission_version_sum(self) == version_sum_while(<<self.package>>, 0)

(* println!: the line is its format text and the value formatted into it. *)
println(text, value) == [text |-> text, value |-> value]

(* What the files hold: the texts of the transmissions, as written or   *)
(* followed by a line end.                                              *)
FileTexts ==
    {t \o b : t \in EvalTexts \cup AbortTexts \cup Fixtures \cup Corrupted,
              b \in {<<>>, <<10>>}}

Files ==
    {NoFile, [kind |-> "invalid_utf8"]}
        \cup {[kind |-> "text", text |-> t] : t \in FileTexts}

(* No file, and the file of the literal fixture D2FE28. *)
StartFiles == {NoFile, [kind |-> "text", text |-> HexText(<<13, 2, 15, 14, 2, 8>>)]}

(* The program is started with a subcommand and a path, or Command::run is *)
(* called on a Command holding the path (argv is then empty).              *)
Argvs == {<<d, "input.txt">> : d \in day \cup {"help"}}

InitCommand ==
    /\ input = <<>>
    /\ bits = <<>>
    /\ call = NoCall
    /\ result = NoResult
    /\ overflow_checks \in BOOLEAN
    /\ transmission = NoTransmission
    /\ NoWalk
    /\ history = NoHistory
    /\ frame = NoFrame
    /\ stdout = <<>>
    /\ \/ pc = "main" /\ argv \in Argvs /\ file \in StartFiles
       \/ pc = "run" /\ argv = <<>> /\ file \in Files

(* main: from_args takes the subcommand from the command line, or prints  *)
(* the help or the usage error and exits; the match runs the command of   *)
(* the variant, which is the command of one of the days one to fifteen.   *)
main ==
    /\ pc = "main"
    /\ call' = [fn |-> "main", bits |-> <<>>, mid |-> 0, message |-> ""]
    /\ pc' = IF argv[1] \in Command THEN "other_day" ELSE "exited"
    /\ UNCHANGED <<input, bits, result, overflow_checks, transmission, walk, io, history, frame>>

(* Command::run: the text is read and parsed, the two lines are printed,  *)
(* and Ok(()) is returned; `?` returns the error of read_all_text or of   *)
(* Transmission::parse, and a panic of decode ends the run after the      *)
(* first line is printed.                                                 *)
Command_run ==
    /\ pc = "run"
    /\ call' = [fn |-> "Command::run", bits |-> <<>>, mid |-> 0, message |-> ""]
    /\ LET text == read_all_text(file)
       IN  IF ~text.ok
           THEN /\ result' = [ok |-> FALSE, err |-> text.err]
                /\ pc' = "returned"
                /\ UNCHANGED <<input, transmission, stdout>>
           ELSE LET parsed == Transmission_parse(text.val)
                IN  /\ input' = text.val
                    /\ IF ~parsed.ok
                       THEN /\ result' = [ok |-> FALSE, err |-> parsed.err]
                            /\ pc' = "returned"
                            /\ UNCHANGED <<transmission, stdout>>
                       ELSE LET first == println("transmission package version sum: ",
                                                 Transmission_version_sum(parsed.val))
                                decoded == Transmission_decode(parsed.val)
                            IN  /\ transmission' = parsed.val
                                /\ IF decoded.panicked
                                   THEN /\ stdout' = Append(stdout, first)
                                        /\ result' = decoded
                                        /\ pc' = "panicked"
                                   ELSE /\ stdout' =
                                               stdout \o
                                               <<first,
                                                 println("transmission package decoded: ",
                                                         decoded.val)>>
                                        /\ result' = [ok |-> TRUE, val |-> <<>>]
                                        /\ pc' = "returned"
    /\ UNCHANGED <<bits, overflow_checks, walk, argv, file, history, frame>>

NextCommand ==
    \/ main
    \/ Command_run

SpecCommand == InitCommand /\ [][NextCommand]_vars

----------------------------------------------------------------------------
(* What the claims are stated with *)
SetMin(S) == CHOOSE x \in S : \A y \in S : x <= y
SetMax(S) == CHOOSE x \in S : \A y \in S : x >= y

(* The characters 0-9 and A-F in the order of their values. *)
HexDigits == <<48, 49, 50, 51, 52, 53, 54, 55, 56, 57, 65, 66, 67, 68, 69, 70>>

IsHexDigit(c) == \E i \in 1..16 : HexDigits[i] = c

HexValueOf(c) == (CHOOSE i \in 1..16 : HexDigits[i] = c) - 1

(* The text without the whitespace at its two ends. *)
Core(s) ==
    LET inked == {i \in 1..Len(s) : ~is_whitespace(s[i])}
    IN  IF inked = {} THEN <<>> ELSE SubSeq(s, SetMin(inked), SetMax(inked))

BadPlaces(s) == {i \in 1..Len(s) : ~IsHexDigit(s[i])}

(* The unsigned integer whose binary digits are b, the first most significant. *)
RECURSIVE Weighted(_, _)
Weighted(b, i) ==
    IF i > Len(b) THEN 0 ELSE b[i] * 2 ^ (Len(b) - i) + Weighted(b, i + 1)

Unsigned(b) == Weighted(b, 1)

D2FE28 == HexText(<<13, 2, 15, 14, 2, 8>>)

----------------------------------------------------------------------------
(* C1: for a text made only of the characters 0-9 and A-F, bitvec_from_str  *)
(* succeeds with 4 bits per character, bits 4i..4i+3 being the value of the  *)
(* i-th character in binary, most significant bit first.                     *)
C1_HexToBits ==
    (call.fn = "bitvec_from_str" /\ BadPlaces(input) = {}) =>
        /\ result.ok
        /\ Len(result.val) = 4 * Len(input)
        /\ \A i \in 1..Len(input) : \A j \in 0..3 :
               result.val[4 * (i - 1) + j + 1]
                   = (HexValueOf(input[i]) \div 2 ^ (3 - j)) % 2

C1_Witness ==
    /\ call.fn = "bitvec_from_str"
    /\ input = D2FE28
    /\ result.ok
    /\ result.val = <<1, 1, 0, 1,  0, 0, 1, 0,  1, 1, 1, 1,
                      1, 1, 1, 0,  0, 0, 1, 0,  1, 0, 0, 0>>

(* C2: a character outside 0-9 and A-F anywhere in the trimmed input makes   *)
(* Transmission::parse fail with the invalid-character error naming that     *)
(* character (the first such one), and no Package is returned.               *)
C2_InvalidCharacter ==
    (call.fn = "Transmission::parse" /\ BadPlaces(Core(input)) # {}) =>
        /\ ~result.ok
        /\ "val" \notin DOMAIN result
        /\ result.err =
               [message |-> "input has an invalid character",
                char |-> Core(input)[SetMin(BadPlaces(Core(input)))]]

(* The bad character lies after the 21 bits of the packet of "D2FE28". *)
C2_Witness ==
    /\ call.fn = "Transmission::parse"
    /\ input = D2FE28 \o <<97>>
    /\ ~result.ok
    /\ result.err.char = 97

(* C3: Transmission::parse gives the same result with whitespace at the two  *)
(* ends of the input as without it (some or all of it removed), and          *)
(* whitespace elsewhere is not removed: it is an invalid character.          *)
C3_TrimEnds ==
    call.fn = "Transmission::parse" =>
        /\ \A i \in 1..(Len(input) + 1) : \A j \in (i - 1)..Len(input) :
               (/\ \A k \in 1..(i - 1) : is_whitespace(input[k])
                /\ \A k \in (j + 1)..Len(input) : is_whitespace(input[k]))
               => result = Transmission_parse(SubSeq(input, i, j))
        /\ \A k \in 1..Len(Core(input)) :
               (/\ is_whitespace(Core(input)[k])
                /\ \A h \in 1..(k - 1) : IsHexDigit(Core(input)[h]))
               => (~result.ok /\ result.err.char = Core(input)[k])

C3_Witness ==
    /\ call.fn = "Transmission::parse"
    /\ input = <<9, 10>> \o D2FE28 \o <<13, 10>>
    /\ result.ok
    /\ result.val.package.version = 6

(* C4: with at least n bits in the cursor, split_at_as returns the unsigned  *)
(* integer the next n bits spell, first bit most significant, and advances   *)
(* the cursor by n bits; split_first returns the next bit as a boolean and   *)
(* advances the cursor by 1 bit.                                             *)
C4_ReadsAdvance ==
    /\ (call.fn = "split_at_as" /\ Len(call.bits) >= call.mid) =>
           /\ result.ok
           /\ result.val = Unsigned(SubSeq(call.bits, 1, call.mid))
           /\ Len(bits) = Len(call.bits) - call.mid
           /\ bits = SubSeq(call.bits, call.mid + 1, Len(call.bits))
    /\ (call.fn = "split_first" /\ Len(call.bits) >= 1) =>
           /\ result.ok
           /\ result.val = (call.bits[1] = 1)
           /\ Len(bits) = Len(call.bits) - 1
           /\ bits = Tail(call.bits)

(* A 15-bit field read as 27, the length field of "38006F45291200". *)
C4_Witness ==
    /\ call.fn = "split_at_as"
    /\ call.mid = 15
    /\ result.ok
    /\ result.val = 27
    /\ bits # <<>>

----------------------------------------------------------------------------
(* The operation of each type id but 4, by the table of the format. *)
OperationNames ==
    <<"Sum", "Product", "Minimum", "Maximum", "", "GreaterThan", "LessThan", "EqualTo">>

(* The bits the last call consumed. *)
Used == Len(call.bits) - Len(bits)

(* The cursor after packages[i..] are decoded one after another from b, each *)
(* decode starting where the one before ended; not ok if one of them fails   *)
(* or gives another package.                                                 *)
RECURSIVE DecodedInTurn(_, _, _)
DecodedInTurn(b, packages, i) ==
    IF i > Len(packages) THEN [ok |-> TRUE, bits |-> b]
    ELSE LET p == parse(b)
         IN  IF p.ok /\ p.val = packages[i] /\ Len(p.bits) < Len(b)
             THEN DecodedInTurn(p.bits, packages, i + 1)
             ELSE [ok |-> FALSE, bits |-> b]

(* C6: Package::parse reads a 3-bit version, then a 3-bit type id; type id 4 *)
(* yields a Literal, and 0, 1, 2, 3, 5, 6, 7 yield an Operator with Sum,     *)
(* Product, Minimum, Maximum, GreaterThan, LessThan, EqualTo; it never fails *)
(* with the invalid-operation error.                                         *)
C6_TypeIdDispatch ==
    call.fn = "parse" =>
        /\ result.ok =>
               LET version == Unsigned(SubSeq(call.bits, 1, 3))
                   type_id == Unsigned(SubSeq(call.bits, 4, 6))
               IN  /\ result.val.version = version
                   /\ (type_id = 4) => result.val.kind = "Literal"
                   /\ (type_id # 4) =>
                          /\ result.val.kind = "Operator"
                          /\ result.val.operation = OperationNames[type_id + 1]
        /\ ~result.ok => result.err.message # "invalid operation value"

C6_Witness ==
    /\ call.fn = "parse"
    /\ result.ok
    /\ SubSeq(call.bits, 1, 6) = <<0, 0, 1, 1, 1, 0>>
    /\ result.val.version = 1
    /\ result.val.operation = "LessThan"
    /\ Len(result.val.packages) = 2

(* C7: a successful parse_value has read k >= 1 groups of 5 bits, 5k bits in *)
(* all, the first k-1 with continuation bit 1 and the k-th with 0; it fails  *)
(* only when the cursor ends before a group with continuation bit 0 is whole. *)
C7_LiteralGroups ==
    call.fn = "parse_value" =>
        LET k == Used \div 5
        IN  /\ \A i \in 1..(k - 1) : call.bits[5 * (i - 1) + 1] = 1
            /\ result.ok =>
                   /\ k >= 1
                   /\ Used = 5 * k
                   /\ call.bits[5 * (k - 1) + 1] = 0
                   /\ bits = SubSeq(call.bits, 5 * k + 1, Len(call.bits))
            /\ ~result.ok =>
                   /\ Len(call.bits) - 5 * k < 5
                   /\ Used - 5 * k \in {0, 1}

(* The three groups of "D2FE28", then its three last bits. *)
C7_Witness ==
    /\ call.fn = "parse_value"
    /\ result.ok
    /\ Used = 15
    /\ SubSeq(call.bits, 1, 15) = <<1, 0, 1, 1, 1,  1, 1, 1, 1, 0,  0, 0, 1, 0, 1>>
    /\ bits = <<0, 0, 0>>

(* The data bits of the first k groups of b, each as a number. *)
Payloads(b, k) == [i \in 1..k |-> Unsigned(SubSeq(b, 5 * (i - 1) + 2, 5 * i))]

RECURSIVE StripZeros(_)
StripZeros(ds) == IF ds # <<>> /\ Head(ds) = 0 THEN StripZeros(Tail(ds)) ELSE ds

(* C8: the value of a literal of k groups is the base-16 number whose digits *)
(* are the payloads of the groups in the order read, for every k (no digit   *)
(* is lost): the two have the same digits once leading zeros are dropped.    *)
C8_LiteralValueIsConcatenation ==
    /\ (call.fn = "parse_value" /\ result.ok) =>
           StripZeros(result.val) = StripZeros(Payloads(call.bits, Used \div 5))
    /\ (call.fn = "parse" /\ result.ok /\ result.val.kind = "Literal") =>
           StripZeros(result.val.value)
               = StripZeros(Payloads(SubSeq(call.bits, 7, Len(call.bits)),
                                     (Used - 6) \div 5))

(* C9: after a successful Package::parse of an operator with length type 0   *)
(* and total length L, the children are the packages decoded one after       *)
(* another from the L bits that follow the length field, they consume all L  *)
(* bits, and the cursor is just past those L bits.                           *)
C9_BoundedChildrenFill ==
    (/\ call.fn = "parse"
     /\ result.ok
     /\ result.val.kind = "Operator"
     /\ call.bits[7] = 0) =>
        LET L == Unsigned(SubSeq(call.bits, 8, 22))
            children == DecodedInTurn(SubSeq(call.bits, 23, 22 + L),
                                      result.val.packages, 1)
        IN  /\ Len(call.bits) >= 22 + L
            /\ children.ok
            /\ children.bits = <<>>
            /\ Used = 22 + L

(* "38006F45291200": 27 bits of children, two literals, 7 bits left. *)
C9_Witness ==
    /\ call.fn = "parse"
    /\ result.ok
    /\ result.val.kind = "Operator"
    /\ call.bits[7] = 0
    /\ Unsigned(SubSeq(call.bits, 8, 22)) = 27
    /\ Len(result.val.packages) = 2
    /\ Len(bits) = 7

(* C10: after a successful Package::parse of an operator with length type 1  *)
(* and sub-packet count n, the operator has n children, which are the        *)
(* packages decoded one after another from the cursor after the count, each  *)
(* starting where the one before ended, and the cursor is where the last     *)
(* one ended.                                                                *)
C10_CountedChildren ==
    (/\ call.fn = "parse"
     /\ result.ok
     /\ result.val.kind = "Operator"
     /\ call.bits[7] = 1) =>
        LET n == Unsigned(SubSeq(call.bits, 8, 18))
            children == DecodedInTurn(SubSeq(call.bits, 19, Len(call.bits)),
                                      result.val.packages, 1)
        IN  /\ Len(result.val.packages) = n
            /\ children.ok
            /\ children.bits = bits

(* "EE00D40C823060": three literals 1, 2, 3 in stream order, 5 bits left. *)
C10_Witness ==
    /\ call.fn = "parse"
    /\ result.ok
    /\ result.val.kind = "Operator"
    /\ call.bits[7] = 1
    /\ Unsigned(SubSeq(call.bits, 8, 18)) = 3
    /\ [i \in 1..3 |-> result.val.packages[i].value[U64_NIBBLES]] = <<1, 2, 3>>
    /\ Len(bits) = 5

----------------------------------------------------------------------------
(* The bits from..to of b that exist. *)
Slice(b, from, to) ==
    IF from > Len(b) \/ to < from THEN <<>>
    ELSE SubSeq(b, from, IF to > Len(b) THEN Len(b) ELSE to)

From(b, from) == Slice(b, from, Len(b))

(* The number of groups of the literal body b: up to the first whole group *)
(* with continuation bit 0 (0 if there is none).                           *)
GroupCount(b) ==
    LET ends == {k \in 1..(Len(b) \div 5) : b[5 * (k - 1) + 1] = 0}
    IN  IF ends = {} THEN 0 ELSE SetMin(ends)

(* The size in bits that the header of the packet at the head of b        *)
(* declares, by the grammar of the format.                                *)
RECURSIVE DeclaredSize(_)
RECURSIVE DeclaredSizes(_, _)
DeclaredSize(b) ==
    IF Len(b) < 7 THEN 0
    ELSE IF Unsigned(SubSeq(b, 4, 6)) = 4 THEN 6 + 5 * GroupCount(From(b, 7))
    ELSE IF b[7] = 0 THEN 7 + 15 + Unsigned(Slice(b, 8, 22))
    ELSE 7 + 11 + DeclaredSizes(From(b, 19), Unsigned(Slice(b, 8, 18)))

DeclaredSizes(b, n) ==
    IF n = 0 \/ b = <<>> THEN 0
    ELSE LET s == DeclaredSize(b)
         IN  s + DeclaredSizes(From(b, s + 1), n - 1)

(* C11: a successful Package::parse advances the cursor by the size its    *)
(* header declares: 6 + 5k bits for a literal of k groups, 7 + 15 + L for  *)
(* length type 0 with total length L, and 7 + 11 + the bits its children   *)
(* consumed for length type 1.                                             *)
C11_ConsumesDeclaredSize ==
    (call.fn = "parse" /\ result.ok) =>
        /\ bits = From(call.bits, Used + 1)
        /\ Used = DeclaredSize(call.bits)
        /\ result.val.kind = "Literal" =>
               Used = 6 + 5 * GroupCount(From(call.bits, 7))
        /\ (result.val.kind = "Operator" /\ call.bits[7] = 0) =>
               Used = 7 + 15 + Unsigned(Slice(call.bits, 8, 22))
        /\ (result.val.kind = "Operator" /\ call.bits[7] = 1) =>
               LET children == DecodedInTurn(From(call.bits, 19),
                                             result.val.packages, 1)
               IN  Used = 7 + 11 + (Len(call.bits) - 18 - Len(children.bits))

(* An operator with length type 1 over an operator with length type 0 and  *)
(* a literal of two groups: 18 + (22 + 11) + 16 bits.                      *)
C11_Witness ==
    /\ call.fn = "parse"
    /\ result.ok
    /\ result.val.kind = "Operator"
    /\ call.bits[7] = 1
    /\ Len(result.val.packages) = 2
    /\ result.val.packages[1].kind = "Operator"
    /\ Used = 67
    /\ bits = <<0, 1, 1>>

(* What may follow the bits of a packet. *)
Tails == {<<>>, <<0>>, <<1>>, <<1, 0, 1>>, <<0, 0, 0, 0>>, <<1, 1, 1, 1, 1, 1, 1>>}

(* C12: the result of decoding depends only on the bits the packet         *)
(* consumed: whatever follows them, of any length and value, the same      *)
(* Package is decoded and what follows is left in the cursor.              *)
C12_TrailingBitsIgnored ==
    (call.fn = "parse" /\ result.ok) =>
        \A t \in Tails :
            LET r == parse(Slice(call.bits, 1, Used) \o t)
            IN  /\ r.ok
                /\ r.val = result.val
                /\ r.bits = t

(* An operator decoded with bits that are not zero after it. *)
C12_Witness ==
    /\ call.fn = "parse"
    /\ result.ok
    /\ result.val.kind = "Operator"
    /\ result.val.packages # <<>>
    /\ bits = <<0, 1, 1>>

(* The operators of the tree p, at every depth. *)
RECURSIVE Operators(_)
Operators(p) ==
    IF p.kind = "Literal" THEN {}
    ELSE {p} \cup UNION {Operators(p.packages[i]) : i \in 1..Len(p.packages)}

(* C13: every Operator package in a tree returned by a successful          *)
(* Package::parse has at least one child.                                  *)
C13_OperatorsHaveChildren ==
    (call.fn = "parse" /\ result.ok) =>
        \A p \in Operators(result.val) : Len(p.packages) >= 1

(* C14: every Operator with operation GreaterThan, LessThan or EqualTo in  *)
(* a tree returned by a successful Package::parse has exactly two          *)
(* children.                                                               *)
C14_ComparisonsHaveTwoChildren ==
    (call.fn = "parse" /\ result.ok) =>
        \A p \in Operators(result.val) :
            p.operation \in {"GreaterThan", "LessThan", "EqualTo"} =>
                Len(p.packages) = 2

(* The messages of the errors for a cursor that is too short. *)
UnderflowMessages ==
    {"insufficient bits for version header",
     "insufficient bits for literal packet identifier",
     "insufficient bits for literal packet content",
     "insufficient bits for packet length identifier",
     "insufficient bits for packet count",
     "insufficient bits for packets bit count",
     "insufficent bits for packet"}

(* C19: when Package::parse succeeds consuming m bits, Package::parse on   *)
(* every proper prefix of those m bits, the empty one included, returns an *)
(* insufficient-bits error and never a Package.                            *)
C19_TruncatedUnderflows ==
    (call.fn = "parse" /\ result.ok) =>
        \A n \in 0..(Used - 1) :
            LET r == parse(Slice(call.bits, 1, n))
            IN  /\ ~r.ok
                /\ r.err.message \in UnderflowMessages

(* A packet with nested children, whose prefixes end inside the header,    *)
(* inside a length field and inside a child.                               *)
C19_Witness ==
    /\ call.fn = "parse"
    /\ result.ok
    /\ result.val.kind = "Operator"
    /\ Len(result.val.packages) = 2
    /\ result.val.packages[1].kind = "Operator"
    /\ result.val.packages[1].packages # <<>>
    /\ Used > 40

----------------------------------------------------------------------------
(* Numbers without a bound, as base-16 digits with the least significant  *)
(* first, for the arithmetic the claims about evaluation speak of.        *)
RECURSIVE Reverse(_)
Reverse(ds) == IF ds = <<>> THEN <<>> ELSE Reverse(Tail(ds)) \o <<Head(ds)>>

(* The number that the u64 v holds. *)
Big(v) == Reverse(StripZeros(v))

RECURSIVE BigPlus(_, _, _)
BigPlus(a, b, carry) ==
    IF a = <<>> /\ b = <<>> THEN (IF carry = 0 THEN <<>> ELSE <<carry>>)
    ELSE LET x == IF a = <<>> THEN 0 ELSE Head(a)
             y == IF b = <<>> THEN 0 ELSE Head(b)
         IN  <<(x + y + carry) % 16>>
                 \o BigPlus(IF a = <<>> THEN a ELSE Tail(a),
                            IF b = <<>> THEN b ELSE Tail(b),
                            (x + y + carry) \div 16)

RECURSIVE BigTimesDigit(_, _, _)
BigTimesDigit(a, d, carry) ==
    IF a = <<>> THEN (IF carry = 0 THEN <<>> ELSE <<carry>>)
    ELSE <<(Head(a) * d + carry) % 16>>
             \o BigTimesDigit(Tail(a), d, (Head(a) * d + carry) \div 16)

RECURSIVE BigTimes(_, _)
BigTimes(a, b) ==
    IF a = <<>> \/ b = <<>> THEN <<>>
    ELSE LET rest == BigTimes(a, Tail(b))
         IN  BigPlus(IF Head(b) = 0 THEN <<>> ELSE BigTimesDigit(a, Head(b), 0),
                     IF rest = <<>> THEN <<>> ELSE <<0>> \o rest, 0)

(* a < b for numbers without leading zeros *)
RECURSIVE BigLessFrom(_, _, _)
BigLessFrom(a, b, i) ==
    IF i = 0 THEN FALSE
    ELSE IF a[i] # b[i] THEN a[i] < b[i]
    ELSE BigLessFrom(a, b, i - 1)

BigLess(a, b) ==
    IF Len(a) # Len(b) THEN Len(a) < Len(b) ELSE BigLessFrom(a, b, Len(a))

RECURSIVE BigSum(_)
BigSum(ns) == IF ns = <<>> THEN <<>> ELSE BigPlus(Head(ns), BigSum(Tail(ns)), 0)

RECURSIVE BigProduct(_)
BigProduct(ns) == IF ns = <<>> THEN <<1>> ELSE BigTimes(Head(ns), BigProduct(Tail(ns)))

(* The u64 that holds n, for n < 2^31. *)
RECURSIVE ToDigits(_, _)
ToDigits(n, w) == IF w = 0 THEN <<>> ELSE ToDigits(n \div 16, w - 1) \o <<n % 16>>

U64Of(n) == ToDigits(n, U64_NIBBLES)

(* The packages of the tree p, at every depth, by their places: the place *)
(* of the root is <<>>, the place of the i-th child of q is q \o <<i>>.     *)
RECURSIVE Places(_)
Places(p) ==
    IF p.kind = "Literal" THEN {<<>>}
    ELSE {<<>>} \cup UNION {{<<i>> \o q : q \in Places(p.packages[i])} :
                               i \in 1..Len(p.packages)}

RECURSIVE At(_, _)
At(p, place) == IF place = <<>> THEN p ELSE At(p.packages[Head(place)], Tail(place))

(* The children of p evaluate, and to these values in stream order. *)
ChildrenReturn(p) == \A i \in 1..Len(p.packages) : ~decode(p.packages[i]).panicked

ChildValues(p) == [i \in 1..Len(p.packages) |-> Big(decode(p.packages[i]).val)]

(* C15: Package::decode returns the literal's value for a Literal; for a   *)
(* Sum operator the arithmetic sum of the evaluated values of all its      *)
(* children, for a Product operator their arithmetic product.              *)
C15_SumAndProduct ==
    call.fn = "decode" =>
        /\ result = decode(transmission.package)
        /\ \A place \in Places(transmission.package) :
               LET p == At(transmission.package, place)
                   r == decode(p)
               IN  /\ p.kind = "Literal" => r = Returned(p.value)
                   /\ (p.kind = "Operator" /\ p.operation = "Sum"
                           /\ ChildrenReturn(p)) =>
                          /\ ~r.panicked
                          /\ Big(r.val) = BigSum(ChildValues(p))
                   /\ (p.kind = "Operator" /\ p.operation = "Product"
                           /\ ChildrenReturn(p)) =>
                          /\ ~r.panicked
                          /\ Big(r.val) = BigProduct(ChildValues(p))

(* C16: for a Minimum operator with at least one child Package::decode     *)
(* returns the smallest of the children's evaluated values, for a Maximum  *)
(* operator the largest, and the result is the value of one of the         *)
(* children.                                                               *)
C16_MinimumAndMaximum ==
    call.fn = "decode" =>
        /\ result = decode(transmission.package)
        /\ \A place \in Places(transmission.package) :
               LET p == At(transmission.package, place)
                   r == decode(p)
               IN  (p.kind = "Operator" /\ p.operation \in {"Minimum", "Maximum"}
                        /\ Len(p.packages) >= 1 /\ ChildrenReturn(p)) =>
                       /\ ~r.panicked
                       /\ \E i \in 1..Len(p.packages) : Big(r.val) = ChildValues(p)[i]
                       /\ p.operation = "Minimum" =>
                              \A i \in 1..Len(p.packages) :
                                  ~BigLess(ChildValues(p)[i], Big(r.val))
                       /\ p.operation = "Maximum" =>
                              \A i \in 1..Len(p.packages) :
                                  ~BigLess(Big(r.val), ChildValues(p)[i])
        /\ input = HexText(<<8, 8, 0, 0, 8, 6, 12, 3, 14, 8, 8, 1, 1, 2>>) =>
               result = Returned(U64Of(7))
        /\ input = HexText(<<12, 14, 0, 0, 12, 4, 3, 13, 8, 8, 1, 1, 2, 0>>) =>
               result = Returned(U64Of(9))

(* decode has returned the minimum of children whose first is not the     *)
(* smallest, here 1 of 2^64 - 1 and 1.                                    *)
C16_Witness ==
    /\ call.fn = "decode"
    /\ transmission.package.kind = "Operator"
    /\ transmission.package.operation = "Minimum"
    /\ Len(transmission.package.packages) = 2
    /\ transmission.package.packages[1].kind = "Literal"
    /\ transmission.package.packages[1].value = [i \in 1..U64_NIBBLES |-> 15]
    /\ result = Returned(U64One)

(* C17: for a comparison operator with two children Package::decode        *)
(* returns 1 or 0, comparing the evaluated value of the first child in     *)
(* stream order against that of the second: GreaterThan gives 1 iff first  *)
(* > second, LessThan iff first < second, EqualTo iff they are equal.      *)
C17_Comparisons ==
    call.fn = "decode" =>
        /\ result = decode(transmission.package)
        /\ \A place \in Places(transmission.package) :
               LET p == At(transmission.package, place)
                   r == decode(p)
               IN  (p.kind = "Operator"
                        /\ p.operation \in {"GreaterThan", "LessThan", "EqualTo"}
                        /\ Len(p.packages) = 2 /\ ChildrenReturn(p)) =>
                       LET first == ChildValues(p)[1]
                           second == ChildValues(p)[2]
                           holds == CASE p.operation = "GreaterThan" -> BigLess(second, first)
                                      [] p.operation = "LessThan" -> BigLess(first, second)
                                      [] p.operation = "EqualTo" -> first = second
                       IN  /\ ~r.panicked
                           /\ r.val \in {U64Zero, U64One}
                           /\ r.val = U64One <=> holds
        /\ input = HexText(<<13, 8, 0, 0, 5, 10, 12, 2, 10, 8, 15, 0>>) =>
               result = Returned(U64Of(1))
        /\ input = HexText(<<15, 6, 0, 0, 11, 12, 2, 13, 8, 15>>) =>
               result = Returned(U64Of(0))
        /\ input = HexText(<<9, 12, 0, 0, 5, 10, 12, 2, 15, 8, 15, 0>>) =>
               result = Returned(U64Of(0))

(* decode has returned 1 for a LessThan over the literals 1 and 3. *)
C17_Witness ==
    /\ call.fn = "decode"
    /\ transmission.package.kind = "Operator"
    /\ transmission.package.operation = "LessThan"
    /\ Len(transmission.package.packages) = 2
    /\ transmission.package.packages[1].kind = "Literal"
    /\ transmission.package.packages[1].value = U64Of(1)
    /\ transmission.package.packages[2].kind = "Literal"
    /\ transmission.package.packages[2].value = U64Of(3)
    /\ result = Returned(U64One)

(* The version sum by recursion, and the number of packages of a tree. *)
RECURSIVE VersionSumOf(_)
RECURSIVE VersionSumOfAll(_)
VersionSumOf(p) ==
    IF p.kind = "Literal" THEN p.version
    ELSE p.version + VersionSumOfAll(p.packages)

VersionSumOfAll(ps) ==
    IF ps = <<>> THEN 0 ELSE VersionSumOf(Head(ps)) + VersionSumOfAll(Tail(ps))

RECURSIVE PackagesOfAll(_)
PackagesOfAll(ps) ==
    IF ps = <<>> THEN 0
    ELSE Cardinality(Places(Head(ps))) + PackagesOfAll(Tail(ps))

(* C18: Transmission::version_sum returns the recursively defined version  *)
(* sum (the version of a Literal; for an Operator its version plus the     *)
(* version sums of its children); every package of the tree, at every      *)
(* depth, is counted exactly once, and the loop ends with the queue empty. *)
C18_VersionSum ==
    /\ pc = "version_sum" =>
           /\ version_sum + VersionSumOfAll(pending_packages)
                  = VersionSumOf(transmission.package)
           /\ popped + PackagesOfAll(pending_packages)
                  = Cardinality(Places(transmission.package))
    /\ (call.fn = "version_sum" /\ pc = "parsed") =>
           /\ result.ok
           /\ result.val = VersionSumOf(transmission.package)
           /\ popped = Cardinality(Places(transmission.package))
           /\ pending_packages = <<>>
           /\ input = HexText(<<8, 10, 0, 0, 4, 10, 8, 0, 1, 10, 8, 0, 0, 2, 15, 4, 7, 8>>) =>
                  result.val = 16
           /\ input = HexText(<<6, 2, 0, 0, 8, 0, 0, 0, 1, 6, 1, 1, 5, 6, 2, 12, 8,
                                8, 0, 2, 1, 1, 8, 14, 3, 4>>) =>
                  result.val = 12

(* version_sum has returned 31 for "A0016C880162017C3686B18A3D4780", an    *)
(* operator over an operator over an operator over five literals.          *)
C18_Witness ==
    /\ call.fn = "version_sum"
    /\ pc = "parsed"
    /\ input = HexText(<<10, 0, 0, 1, 6, 12, 8, 8, 0, 1, 6, 2, 0, 1, 7, 12, 3, 6,
                         8, 6, 11, 1, 8, 10, 3, 13, 4, 7, 8, 0>>)
    /\ result.val = 31
    /\ popped = 8

----------------------------------------------------------------------------
(* What Package::parse gave for the packet at the head of b agrees with   *)
(* what it gives for the sub-packets, taken one after another from where  *)
(* the header puts them: the first sub-packet that fails makes the packet *)
(* fail with that error, whatever follows it, and if none fails the       *)
(* packet has them all, in order; and so for every sub-packet in turn.    *)
RECURSIVE Aborting(_)
RECURSIVE AbortingFrom(_, _, _, _)
Aborting(b) ==
    LET r == parse(b)
    IN  IF Len(b) < 7 THEN ~r.ok
        ELSE IF Unsigned(SubSeq(b, 4, 6)) = 4
        THEN r.ok <=> GroupCount(From(b, 7)) > 0
        ELSE IF b[7] = 1
        THEN IF Len(b) < 18 THEN ~r.ok
             ELSE AbortingFrom(r, From(b, 19), Unsigned(SubSeq(b, 8, 18)), 1)
        ELSE IF Len(b) < 22 \/ Len(b) < 22 + Unsigned(Slice(b, 8, 22)) THEN ~r.ok
             ELSE AbortingFrom(r, Slice(b, 23, 22 + Unsigned(SubSeq(b, 8, 22))), -1, 1)

(* The sub-packets from the i-th on, at the cursor c; n of them are left  *)
(* by count, or, if n < 0, as many as the range c holds.                  *)
AbortingFrom(r, c, n, i) ==
    IF n = 0 \/ (n < 0 /\ c = <<>>)
    THEN r.ok /\ Len(r.val.packages) = i - 1
    ELSE LET sub == parse(c)
         IN  IF ~sub.ok THEN ~r.ok /\ r.err = sub.err
             ELSE /\ r.ok => (Len(r.val.packages) >= i /\ r.val.packages[i] = sub.val)
                  /\ Aborting(c)
                  /\ AbortingFrom(r, sub.bits, IF n < 0 THEN n ELSE n - 1, i + 1)

(* C20: a failure at any step of decoding, at any depth and in either      *)
(* framing, aborts the whole decode: Transmission::parse returns a         *)
(* complete tree or the error of the first step that failed, never a tree  *)
(* without the packet that failed, and no packet after it is decoded.      *)
C20_FailureAborts ==
    call.fn = "Transmission::parse" =>
        LET bitvector == bitvec_from_str(trim(input))
        IN  IF ~bitvector.ok
            THEN ~result.ok /\ result.err = bitvector.err
            ELSE LET package == parse(bitvector.val)
                 IN  /\ Aborting(bitvector.val)
                     /\ result.ok <=> package.ok
                     /\ result.ok => result.val = [package |-> package.val]
                     /\ ~result.ok => result.err = package.err

(* Transmission::parse has failed on an operator of two sub-packets: the   *)
(* first, an operator whose range ends inside its literal, failed, and the *)
(* literal after it, which is sound, was not decoded.                      *)
C20_Witness ==
    /\ call.fn = "Transmission::parse"
    /\ input = HexOfBits(EncOperator(1, 0, 1, 2,
                             EncOperator(2, 1, 0, 15, EncLiteral(5, <<0, 9>>))
                                 \o EncLiteral(0, <<9>>)))
    /\ ~result.ok
    /\ result.err = [message |-> "insufficient bits for literal packet content",
                     len |-> 3, mid |-> 4]


----------------------------------------------------------------------------
(* C21: the command surface offers a subcommand that takes a file path and *)
(* runs the transmission decoder: started with the subcommand of day       *)
(* sixteen and a path, the dispatch of main reaches Command::run of        *)
(* day::sixteen.                                                           *)
C21_DispatchReachesRun ==
    (call.fn = "main" /\ argv[1] = "sixteen") => pc = "run"

(* C22: when reading or parsing the transmission fails, Command::run      *)
(* returns the error and prints nothing; when parsing succeeds it prints  *)
(* the version-sum line first and the evaluated-result line second, both  *)
(* computed from the tree Transmission::parse gave for the text read.     *)
C22_RunPrintsBothOrNeither ==
    call.fn = "Command::run" =>
        IF file.kind # "text" \/ ~Transmission_parse(file.text).ok
        THEN /\ pc = "returned"
             /\ ~result.ok
             /\ stdout = <<>>
        ELSE /\ pc = "returned"
             /\ result.ok
             /\ transmission = Transmission_parse(file.text).val
             /\ Len(stdout) = 2
             /\ stdout[1].text = "transmission package version sum: "
             /\ stdout[1].value = VersionSumOf(transmission.package)
             /\ stdout[2].text = "transmission package decoded: "
             /\ stdout[2].value = Transmission_decode(transmission).val

----------------------------------------------------------------------------
(* The call is Package::parse on an operator with length type 0 whose     *)
(* declared range lies within the cursor.                                 *)
BoundedCall ==
    /\ call.fn = "parse"
    /\ Len(call.bits) >= 22
    /\ Unsigned(SubSeq(call.bits, 4, 6)) # 4
    /\ call.bits[7] = 0
    /\ Len(call.bits) >= 22 + Unsigned(SubSeq(call.bits, 8, 22))

(* C23: in length-type-0 framing the range carved off is independent of   *)
(* the parent: the parent cursor is advanced by exactly the declared      *)
(* length, whether the children decode or not, and no child, at any       *)
(* depth, reads a bit beyond the range: what follows the range changes    *)
(* nothing of the outcome, and a child that needs more bits than the      *)
(* range holds fails with an insufficient-bits error even when the parent *)
(* cursor has bits after the range.                                       *)
C23_BoundedRangeIndependent ==
    BoundedCall =>
        LET declared == Unsigned(SubSeq(call.bits, 8, 22))
        IN  /\ bits = From(call.bits, 22 + declared + 1)
            /\ ~result.ok => result.err.message \in UnderflowMessages
            /\ \A t \in Tails :
                   LET r == parse(Slice(call.bits, 1, 22 + declared) \o t)
                   IN  /\ r.ok = result.ok
                       /\ r.bits = t
                       /\ r.ok => r.val = result.val
                       /\ ~r.ok => r.err = result.err

(* A range whose first child is an operator with length type 1 that asks  *)
(* for more sub-packets than the range holds, with bits after the range.  *)
C23_Witness ==
    /\ BoundedCall
    /\ ~result.ok
    /\ Unsigned(SubSeq(call.bits, 8, 22)) >= 18
    /\ Unsigned(SubSeq(call.bits, 26, 28)) # 4
    /\ call.bits[29] = 1
    /\ bits # <<>>
    /\ \E i \in 1..Len(bits) : bits[i] = 1

----------------------------------------------------------------------------
(* C29: a bit read that fails leaves the cursor exactly where it was:     *)
(* split_first on an empty cursor, and split_at or split_at_as asked for  *)
(* more bits than remain, return the error and the cursor holds the same  *)
(* bits, at the same position, as before the call.                        *)
C29_FailedReadKeepsCursor ==
    /\ (call.fn = "split_first" /\ call.bits = <<>>) =>
           ~result.ok /\ bits = call.bits
    /\ (call.fn \in {"split_at", "split_at_as"} /\ call.mid > Len(call.bits)) =>
           ~result.ok /\ bits = call.bits
    /\ (call.fn \in {"split_first", "split_at", "split_at_as"} /\ ~result.ok) =>
           /\ bits = call.bits
           /\ Used = 0
           /\ call.fn = "split_first" => call.bits = <<>>
           /\ call.fn # "split_first" => call.mid > Len(call.bits)

(* split_at_as asked for the 11 bits of a packet count with 10 left. *)
C29_Witness ==
    /\ call.fn = "split_at_as"
    /\ call.mid = OPERATION_PACKET_DATA_COUNT
    /\ Len(call.bits) = 10
    /\ ~result.ok
    /\ bits = call.bits

----------------------------------------------------------------------------
(* C24: evaluation is total over the trees Package::parse returns:        *)
(* Package::decode returns a value for every one of them and never        *)
(* aborts, and a GreaterThan, LessThan or EqualTo never reads a child     *)
(* position that does not exist.                                          *)
C24_DecodeIsTotal ==
    call.fn = "decode" =>
        /\ pc = "parsed"
        /\ ~result.panicked
        /\ \A place \in Places(transmission.package) :
               LET p == At(transmission.package, place)
               IN  (p.kind = "Operator"
                        /\ p.operation \in {"GreaterThan", "LessThan", "EqualTo"}
                        /\ ChildrenReturn(p)) =>
                       ~decode(p).panicked

(* C25: evaluation never silently wraps: whenever Package::decode returns *)
(* a value for a Sum or Product operator of the decoded tree, that value  *)
(* is the exact sum or product of the values of its children, never that  *)
(* number reduced modulo 2^64.                                            *)
C25_NeverWraps ==
    call.fn = "decode" =>
        \A place \in Places(transmission.package) :
            LET p == At(transmission.package, place)
                r == decode(p)
            IN  (p.kind = "Operator" /\ ~r.panicked) =>
                    /\ p.operation = "Sum" =>
                           Big(r.val) = BigSum(ChildValues(p))
                    /\ p.operation = "Product" =>
                           Big(r.val) = BigProduct(ChildValues(p))

----------------------------------------------------------------------------
(* The packet at the head of b is an operator that declares no            *)
(* sub-packets: length type 0 with total length 0, or length type 1 with  *)
(* count 0.                                                               *)
DeclaresNone(b) ==
    /\ Len(b) >= 18
    /\ Unsigned(SubSeq(b, 4, 6)) # 4
    /\ \/ b[7] = 1 /\ Unsigned(SubSeq(b, 8, 18)) = 0
       \/ b[7] = 0 /\ Len(b) >= 22 /\ Unsigned(SubSeq(b, 8, 22)) = 0

(* What evaluating an operator without children gives. *)
OfNone(operation) ==
    CASE operation = "Sum" -> 0
      [] operation = "Product" -> 1
      [] operation = "Minimum" -> 0
      [] operation = "Maximum" -> 0

(* C30: an operator that declares no sub-packets decodes successfully     *)
(* with an empty child list, and evaluating an operator without children  *)
(* gives 0 for Sum, 1 for Product, 0 for Minimum and 0 for Maximum.       *)
C30_EmptyOperators ==
    /\ (call.fn = "Transmission::parse" /\ bitvec_from_str(trim(input)).ok
            /\ DeclaresNone(bitvec_from_str(trim(input)).val)) =>
           /\ result.ok
           /\ result.val.package.kind = "Operator"
           /\ result.val.package.packages = <<>>
    /\ call.fn = "decode" =>
           \A place \in Places(transmission.package) :
               LET p == At(transmission.package, place)
               IN  (p.kind = "Operator" /\ p.packages = <<>>
                        /\ p.operation \in {"Sum", "Product", "Minimum", "Maximum"}) =>
                       /\ decode(p) = Returned(U64Of(OfNone(p.operation)))
                       /\ place = <<>> => result = Returned(U64Of(OfNone(p.operation)))

(* decode has returned 0 for a Maximum with length type 0 and total       *)
(* length 0.                                                              *)
C30_Witness ==
    /\ call.fn = "decode"
    /\ DeclaresNone(bitvec_from_str(trim(input)).val)
    /\ bitvec_from_str(trim(input)).val[7] = 0
    /\ transmission.package.operation = "Maximum"
    /\ transmission.package.packages = <<>>
    /\ result = Returned(U64Zero)

----------------------------------------------------------------------------
(* C27: every package of a decoded tree, Literal or Operator and at every *)
(* depth, has a version from 0 to 7, so what Transmission::version_sum    *)
(* has added up, and what it returns, is at most 7 times the number of    *)
(* packages counted.                                                      *)
C27_VersionsBounded ==
    /\ (call.fn = "Transmission::parse" /\ result.ok) =>
           \A place \in Places(result.val.package) :
               At(result.val.package, place).version \in 0..7
    /\ pc = "version_sum" => version_sum <= 7 * popped
    /\ (call.fn = "version_sum" /\ pc = "parsed") =>
           /\ \A place \in Places(transmission.package) :
                  At(transmission.package, place).version \in 0..7
           /\ result.val <= 7 * Cardinality(Places(transmission.package))

(* version_sum has returned for a tree of three levels that holds a       *)
(* package of version 7 and one of version 0 below the root.              *)
C27_Witness ==
    /\ call.fn = "version_sum"
    /\ pc = "parsed"
    /\ \E place \in Places(transmission.package) :
           Len(place) = 2 /\ At(transmission.package, place).version = 7
    /\ \E place \in Places(transmission.package) :
           Len(place) = 1 /\ At(transmission.package, place).version = 0
    /\ result.val > 7

----------------------------------------------------------------------------
(* C28: Transmission::version_sum and Transmission::decode leave the      *)
(* decoded tree unchanged and are deterministic: called in either order,  *)
(* or repeatedly, on the same Transmission, each of them has returned one *)
(* and the same result every time, and the tree is still the one that     *)
(* Transmission::parse returned.                                          *)
C28_PureAndDeterministic ==
    /\ Cardinality(history.version_sum) <= 1
    /\ Cardinality(history.decode) <= 1
    /\ pc \in {"parsed", "version_sum", "panicked"} =>
           transmission = Transmission_parse(input).val
    /\ (call.fn = "version_sum" /\ pc = "parsed") => history.version_sum = {result.val}
    /\ call.fn = "decode" => history.decode = {result}

(* version_sum has returned after decode had returned, on a tree with     *)
(* sub-packets whose version sum is not 0, and both had returned before.  *)
C28_Witness ==
    /\ call.fn = "version_sum"
    /\ pc = "parsed"
    /\ transmission.package.kind = "Operator"
    /\ transmission.package.packages # <<>>
    /\ history.version_sum = {result.val}
    /\ result.val > 0
    /\ \E r \in history.decode : ~r.panicked

----------------------------------------------------------------------------
(* A turn of a loop of parse_sub_packages that goes on to the next turn:  *)
(* the sub-packet parsed took at least 11 bits from the bounded range,    *)
(* or from the cursor with the remaining count one less.                  *)
LoopsShrink ==
    /\ (pc = "bits_loop" /\ pc' = "bits_loop") =>
           /\ Len(frame'.packet_bits) + 11 <= Len(frame.packet_bits)
           /\ Len(frame'.packages) = Len(frame.packages) + 1
    /\ (pc = "count_loop" /\ pc' = "count_loop") =>
           /\ frame'.packet_count = frame.packet_count - 1
           /\ Len(bits') + 11 <= Len(bits)
           /\ Len(frame'.packages) = Len(frame.packages) + 1

(* C26: decoding always terminates: Package::parse on a finite bit        *)
(* sequence ends with a Package or an error; a successful parse consumes  *)
(* at least 11 bits, so every turn of the length-type-0 loop shrinks its  *)
(* bounded range and every turn of the length-type-1 loop decreases its   *)
(* remaining count.                                                       *)
C26_ParseTerminates ==
    /\ <>(pc = "returned")
    /\ [][LoopsShrink]_vars
    /\ [](pc = "returned" =>
              /\ result.ok => Len(call.bits) - Len(bits) >= 11
              /\ result.ok => result.val.kind \in {"Literal", "Operator"}
              /\ ~result.ok => result.err.message \in UnderflowMessages)

(* Package::parse has returned an Operator after two turns of the loop    *)
(* over a bounded range, the second sub-packet an operator itself.        *)
C26_Witness ==
    /\ pc = "returned"
    /\ result.ok
    /\ call.bits[7] = 0
    /\ Len(frame.packages) = 2
    /\ frame.packages[2].kind = "Operator"
    /\ frame.packet_bits = <<>>

====
